---------------------------- MODULE Spec2Model ----------------------------
(***************************************************************************)
(* A model of the citybike cleaning pipeline and analytics engine          *)
(* (src/citybike/analyzer.py) with the numeric routines it calls           *)
(* (src/citybike/numerical.py).                                            *)
(*                                                                         *)
(* A DataFrame is a record [columns, rows]: the set of its column names    *)
(* and the sequence of its rows, each row a record of cells.               *)
(*   - a text cell is a string, NA the missing value;                      *)
(*   - a time cell is [tag, t]: "str" a parsable text, "bad" any other     *)
(*     text, "nat" a missing value or NaT, "ts" a parsed Timestamp, t in   *)
(*     seconds;                                                            *)
(*   - a number cell is [tag, n, d]: "num" the float n/d (in lowest terms, *)
(*     d > 0), "numstr" a numeric text, "bad" any other text, "nan" NaN.   *)
(***************************************************************************)
EXTENDS Integers, Sequences, FiniteSets, TLC

VARIABLES
    copy_on_write,          \* whether the installed pandas runs in Copy-on-Write mode
    cleaner,                \* the DataCleaner method a run exercises ("all": clean_data)
    pc,                     \* position of the run
    trips_df,               \* BikeShareSystem.trips_df / the argument of clean_trips_csv
    stations_df,            \* BikeShareSystem.stations_df
    maintenance_df,         \* BikeShareSystem.maintenance_df
    trips_clean_df,         \* BikeShareSystem.trips_clean_df
    stations_clean_df,      \* BikeShareSystem.stations_clean_df
    maintenance_clean_df,   \* BikeShareSystem.maintenance_clean_df
    recleaned,              \* the cleaner applied to its own result
    error,                  \* the exception load_data / clean_data caught and printed
    answer,                 \* the last query called and its outcome
    array,                  \* the array a numerical routine is called on
    param,                  \* the argument of the last call (top_n, multiplier, threshold)
    entity                  \* the models.py object a run constructs and calls

vars == <<copy_on_write, cleaner, pc, trips_df, stations_df, maintenance_df,
          trips_clean_df, stations_clean_df, maintenance_clean_df, recleaned,
          error, answer, array, param, entity>>

----------------------------------------------------------------------------
(* Bounds of the model. *)

MaxTripRows == 2
MaxStationRows == 2
MaxMaintenanceRows == 2

----------------------------------------------------------------------------
(* Cells. *)

NA == "NA"

NaT == [tag |-> "nat", t |-> 0]
BadTime == [tag |-> "bad", t |-> 0]
Str(t) == [tag |-> "str", t |-> t]
Ts(t) == [tag |-> "ts", t |-> t]

NaN == [tag |-> "nan", n |-> 0, d |-> 1]
BadNum == [tag |-> "bad", n |-> 0, d |-> 1]
NumStr(n) == [tag |-> "numstr", n |-> n, d |-> 1]

Abs(x) == IF x < 0 THEN -x ELSE x

RECURSIVE GCD(_, _)
GCD(a, b) == IF b = 0 THEN a ELSE GCD(b, a % b)

\* the float n/d, d > 0, in lowest terms
Frac(n, d) ==
    LET g == GCD(Abs(n), d)
    IN  [tag |-> "num", n |-> n \div g, d |-> d \div g]

Num(n) == Frac(n, 1)

IsNaN(c) == c.tag # "num"
IsNaT(c) == c.tag # "ts"

\* comparisons of floats; every comparison with NaN is false
Lt(a, b) == ~IsNaN(a) /\ ~IsNaN(b) /\ a.n * b.d < b.n * a.d
Le(a, b) == ~IsNaN(a) /\ ~IsNaN(b) /\ a.n * b.d <= b.n * a.d
Gt(a, b) == Lt(b, a)
Ge(a, b) == Le(b, a)

\* float arithmetic; NaN in, NaN out
Add(a, b) ==
    IF IsNaN(a) \/ IsNaN(b) THEN NaN ELSE Frac(a.n * b.d + b.n * a.d, a.d * b.d)

Sub(a, b) ==
    IF IsNaN(a) \/ IsNaN(b) THEN NaN ELSE Frac(a.n * b.d - b.n * a.d, a.d * b.d)

Mul(a, b) == IF IsNaN(a) \/ IsNaN(b) THEN NaN ELSE Frac(a.n * b.n, a.d * b.d)

\* a / b for b > 0
Div(a, b) == IF IsNaN(a) \/ IsNaN(b) THEN NaN ELSE Frac(a.n * b.d, a.d * b.n)

\* round(x, 2): to the nearest hundredth, a tie to the even one; NaN stays NaN
Round2(x) ==
    IF IsNaN(x) THEN x
    ELSE LET m == x.n * 100
             q == m \div x.d
             r == m % x.d
         IN  IF 2 * r < x.d THEN Frac(q, 100)
             ELSE IF 2 * r > x.d THEN Frac(q + 1, 100)
             ELSE Frac(IF q % 2 = 0 THEN q ELSE q + 1, 100)

\* a parser of texts only (as utils.parse_datetime): a Timestamp is not parsed again
ToDatetime_TextOnly(c) == IF c.tag = "str" THEN Ts(c.t) ELSE NaT

\* pd.to_datetime(column, errors="coerce"), cell by cell
ToDatetime(c) == IF c.tag \in {"str", "ts"} THEN Ts(c.t) ELSE NaT

\* pd.to_numeric(column, errors="coerce"), cell by cell
ToNumeric(c) == IF c.tag \in {"num", "numstr"} THEN Frac(c.n, c.d) ELSE NaN

----------------------------------------------------------------------------
(* DataFrame operations. *)

None == [columns |-> {"<None>"}, rows |-> <<>>]

\* no de-duplication at all
DropDuplicates_Skipped(s, key, seen) == s

\* df.drop_duplicates(subset=[key], keep="first"): missing keys equal each other
RECURSIVE DropDuplicates(_, _, _)
DropDuplicates(s, key, seen) ==
    IF s = <<>> THEN <<>>
    ELSE IF Head(s)[key] \in seen
         THEN DropDuplicates(Tail(s), key, seen)
         ELSE <<Head(s)>> \o DropDuplicates(Tail(s), key, seen \cup {Head(s)[key]})

\* Series.sum() of a column of floats, NaN skipped
RECURSIVE SumOf(_, _)
SumOf(s, col) ==
    IF s = <<>> THEN Num(0)
    ELSE IF IsNaN(Head(s)[col]) THEN SumOf(Tail(s), col)
         ELSE Add(Head(s)[col], SumOf(Tail(s), col))

CountOf(s, col) == Cardinality({i \in 1..Len(s) : ~IsNaN(s[i][col])})

\* Series.mean(): NaN skipped, NaN for a column with no number
MeanOf(s, col) ==
    IF CountOf(s, col) = 0 THEN NaN
    ELSE LET t == SumOf(s, col) IN Frac(t.n, t.d * CountOf(s, col))

----------------------------------------------------------------------------
(* DataCleaner.clean_trips_csv *)

TripColumns == {"trip_id", "user_id", "user_type", "bike_id", "bike_type",
                "start_station_id", "end_station_id", "start_time", "end_time",
                "duration_minutes", "distance_km", "status"}

TripKeys == {"trip_id", "user_id", "bike_id", "start_station_id", "end_station_id"}

valid_statuses == {"completed", "cancelled"}

CoerceTrip(r) ==
    [r EXCEPT !.start_time = ToDatetime(@), !.end_time = ToDatetime(@),
              !.duration_minutes = ToNumeric(@), !.distance_km = ToNumeric(@)]

\* df["end_time"] < df["start_time"]: false when either side is NaT
invalid_times(r) ==
    /\ ~IsNaT(r.end_time) /\ ~IsNaT(r.start_time)
    /\ r.end_time.t < r.start_time.t

HasAll(r, keys) == \A k \in keys : r[k] # NA

\* the difference left in seconds
MinutesBetween_Seconds(r) ==
    IF IsNaT(r.end_time) \/ IsNaT(r.start_time) THEN NaN
    ELSE Frac(r.end_time.t - r.start_time.t, 1)

\* (end_time - start_time).dt.total_seconds() / 60, NaN when either is NaT
MinutesBetween(r) ==
    IF IsNaT(r.end_time) \/ IsNaT(r.start_time) THEN NaN
    ELSE Frac(r.end_time.t - r.start_time.t, 60)

FillDuration(r) ==
    IF IsNaN(r.duration_minutes)
    THEN [r EXCEPT !.duration_minutes = MinutesBetween(r)]
    ELSE r

DurationOk(r) == ~IsNaN(r.duration_minutes) /\ Ge(r.duration_minutes, Num(1))

\* df["distance_km"].fillna(mean_distance, inplace=True): a write through a
\* column selection, which reaches df only when pandas is not in Copy-on-Write mode
FillDistance(s, cow) ==
    IF \E i \in 1..Len(s) : IsNaN(s[i].distance_km)
    THEN LET mean_distance == MeanOf(s, "distance_km")
             Fill(r) == IF IsNaN(r.distance_km)
                        THEN [r EXCEPT !.distance_km = mean_distance] ELSE r
         IN  IF cow THEN s ELSE [i \in 1..Len(s) |-> Fill(s[i])]
    ELSE s

StatusOk(r) == r.status \in valid_statuses \/ r.status = NA

CleanTripRows(s, cow) ==
    LET s1 == [i \in 1..Len(s) |-> CoerceTrip(s[i])]
        s2 == SelectSeq(s1, LAMBDA r : ~invalid_times(r))
        s3 == DropDuplicates(s2, "trip_id", {})
        s4 == SelectSeq(s3, LAMBDA r : HasAll(r, TripKeys))
        s5 == [i \in 1..Len(s4) |-> FillDuration(s4[i])]
        s6 == SelectSeq(s5, DurationOk)
        s7 == FillDistance(s6, cow)
    IN  SelectSeq(s7, StatusOk)

\* the outcome of a call: the value returned, or the exception raised (and, for a
\* KeyError, the column labels its message names)
Returned(v) == [raised |-> "", columns |-> {}, value |-> v]
Raised(e) == [raised |-> e, columns |-> {}, value |-> None]
KeyError(labels) == [raised |-> "KeyError", columns |-> labels, value |-> None]

\* the columns the first failing lookup of a cleaner misses, {} when none fails
RECURSIVE FirstMissing(_, _)
FirstMissing(lookups, columns) ==
    IF lookups = <<>> THEN {}
    ELSE IF Head(lookups) \subseteq columns THEN FirstMissing(Tail(lookups), columns)
         ELSE Head(lookups) \ columns

\* the column lookups of clean_trips_csv, in the order the code makes them
TripLookups ==
    << {"start_time"}, {"end_time"}, {"duration_minutes"}, {"distance_km"},
       {"trip_id"},
       {"trip_id", "user_id", "bike_id", "start_station_id", "end_station_id"},
       {"status"} >>

NoError == [raised |-> "", table |-> "", columns |-> {}]
NoAnswer == [query |-> "", outcome |-> Returned(None)]

clean_trips_csv(df, cow) ==
    IF FirstMissing(TripLookups, df.columns) # {}
    THEN KeyError(FirstMissing(TripLookups, df.columns))
    ELSE Returned([columns |-> df.columns, rows |-> CleanTripRows(df.rows, cow)])

----------------------------------------------------------------------------
(* Raw trip rows. *)

BaseTrip(id) ==
    [trip_id |-> id, user_id |-> "U1", user_type |-> "member", bike_id |-> "B1",
     bike_type |-> "classic", start_station_id |-> "S1", end_station_id |-> "S2",
     start_time |-> Str(600), end_time |-> Str(720),
     duration_minutes |-> Num(5), distance_km |-> Num(2), status |-> "completed"]

TripVariants(b) ==
    { b,
      [b EXCEPT !.user_id = NA],
      [b EXCEPT !.bike_id = NA],
      [b EXCEPT !.start_station_id = NA],
      [b EXCEPT !.end_station_id = NA],
      [b EXCEPT !.start_time = BadTime],
      [b EXCEPT !.end_time = NaT],
      [b EXCEPT !.end_time = Str(540)],
      [b EXCEPT !.end_time = Str(600)],
      [b EXCEPT !.duration_minutes = NaN],
      [b EXCEPT !.duration_minutes = NumStr(7)],
      [b EXCEPT !.duration_minutes = Num(0)],
      [b EXCEPT !.duration_minutes = BadNum, !.end_time = Str(600)],
      [b EXCEPT !.duration_minutes = NaN, !.end_time = Str(630)],
      [b EXCEPT !.duration_minutes = NaN, !.end_time = Str(660)],
      [b EXCEPT !.duration_minutes = NaN, !.end_time = BadTime],
      [b EXCEPT !.distance_km = NaN],
      [b EXCEPT !.distance_km = BadNum, !.status = NA],
      [b EXCEPT !.distance_km = Num(3)],
      [b EXCEPT !.distance_km = Num(3), !.status = "missing"],
      [b EXCEPT !.distance_km = Num(3), !.duration_minutes = Num(0)],
      [b EXCEPT !.status = "cancelled"] }

TripRows ==
    UNION {TripVariants(BaseTrip(id)) : id \in {"T1", "T2"}} \cup {BaseTrip(NA)}

----------------------------------------------------------------------------
(* DataCleaner.clean_stations_csv *)

StationColumns == {"station_id", "station_name", "capacity", "latitude", "longitude"}

StationKeys == {"station_id", "station_name"}

CoerceStation(r) ==
    [r EXCEPT !.capacity = ToNumeric(@), !.latitude = ToNumeric(@),
              !.longitude = ToNumeric(@)]

StationComplete(r) ==
    /\ HasAll(r, StationKeys)
    /\ ~IsNaN(r.capacity) /\ ~IsNaN(r.latitude) /\ ~IsNaN(r.longitude)

\* the upper longitude bound forgotten
CoordinatesOk_NoEast(r) ==
    /\ Ge(r.latitude, Num(-90)) /\ Le(r.latitude, Num(90))
    /\ Ge(r.longitude, Num(-180))

CoordinatesOk(r) ==
    /\ Ge(r.latitude, Num(-90)) /\ Le(r.latitude, Num(90))
    /\ Ge(r.longitude, Num(-180)) /\ Le(r.longitude, Num(180))

CapacityOk(r) == Gt(r.capacity, Num(0))

\* the same with the duplicates dropped after the checks
CleanStationRows_ChecksFirst(s) ==
    LET s1 == [i \in 1..Len(s) |-> CoerceStation(s[i])]
        s2 == SelectSeq(s1, StationComplete)
        s3 == SelectSeq(s2, CoordinatesOk)
        s4 == SelectSeq(s3, CapacityOk)
    IN  DropDuplicates(s4, "station_id", {})

CleanStationRows(s) ==
    LET s1 == [i \in 1..Len(s) |-> CoerceStation(s[i])]
        s2 == DropDuplicates(s1, "station_id", {})
        s3 == SelectSeq(s2, StationComplete)
        s4 == SelectSeq(s3, CoordinatesOk)
    IN  SelectSeq(s4, CapacityOk)

\* the column lookups of clean_stations_csv, in the order the code makes them
StationLookups ==
    << {"capacity"}, {"latitude"}, {"longitude"}, {"station_id"},
       {"station_id", "station_name", "capacity", "latitude", "longitude"} >>

clean_stations_csv(df) ==
    IF FirstMissing(StationLookups, df.columns) # {}
    THEN KeyError(FirstMissing(StationLookups, df.columns))
    ELSE Returned([columns |-> df.columns, rows |-> CleanStationRows(df.rows)])

----------------------------------------------------------------------------
(* DataCleaner.clean_maintenance_csv *)

MaintenanceColumns == {"record_id", "bike_id", "bike_type", "date",
                       "maintenance_type", "cost", "description"}

MaintenanceKeys == {"record_id", "bike_id", "maintenance_type"}

valid_types == {"tire_repair", "brake_adjustment", "battery_replacement",
                "chain_lubrication", "general_inspection"}

CoerceMaintenance(r) ==
    [r EXCEPT !.date = ToDatetime(@), !.cost = ToNumeric(@)]

MaintenanceComplete(r) ==
    HasAll(r, MaintenanceKeys) /\ ~IsNaT(r.date) /\ ~IsNaN(r.cost)

\* any type that is present accepted
TypeOk_AnyPresent(r) == r.maintenance_type # NA

TypeOk(r) == r.maintenance_type \in valid_types

CostOk(r) == Ge(r.cost, Num(0))

CleanMaintenanceRows(s) ==
    LET s1 == [i \in 1..Len(s) |-> CoerceMaintenance(s[i])]
        s2 == DropDuplicates(s1, "record_id", {})
        s3 == SelectSeq(s2, MaintenanceComplete)
        s4 == SelectSeq(s3, TypeOk)
    IN  SelectSeq(s4, CostOk)

\* the column lookups of clean_maintenance_csv, in the order the code makes them
MaintenanceLookups ==
    << {"date"}, {"cost"}, {"record_id"},
       {"record_id", "bike_id", "date", "maintenance_type", "cost"},
       {"maintenance_type"} >>

clean_maintenance_csv(df) ==
    IF FirstMissing(MaintenanceLookups, df.columns) # {}
    THEN KeyError(FirstMissing(MaintenanceLookups, df.columns))
    ELSE Returned([columns |-> df.columns, rows |-> CleanMaintenanceRows(df.rows)])

----------------------------------------------------------------------------
(* Raw station and maintenance rows. *)

BaseStation(id) ==
    [station_id |-> id, station_name |-> "Central Station", capacity |-> Num(10),
     latitude |-> Num(48), longitude |-> Num(9)]

StationVariants(b) ==
    { b,
      [b EXCEPT !.station_name = NA],
      [b EXCEPT !.station_name = "City Hall", !.capacity = NumStr(15)],
      [b EXCEPT !.capacity = NaN],
      [b EXCEPT !.capacity = BadNum],
      [b EXCEPT !.capacity = Num(0)],
      [b EXCEPT !.capacity = Num(-5)],
      [b EXCEPT !.latitude = BadNum],
      [b EXCEPT !.latitude = Num(-90)],
      [b EXCEPT !.latitude = Num(90)],
      [b EXCEPT !.latitude = Num(-91)],
      [b EXCEPT !.latitude = Frac(181, 2)],
      [b EXCEPT !.longitude = NaN],
      [b EXCEPT !.longitude = Num(180)],
      [b EXCEPT !.longitude = Num(181)],
      [b EXCEPT !.longitude = Num(-181)] }

StationRows ==
    UNION {StationVariants(BaseStation(id)) : id \in {"S1", "S2"}}
        \cup {BaseStation(NA)}

BaseMaintenance(id) ==
    [record_id |-> id, bike_id |-> "B1", bike_type |-> "classic",
     date |-> Str(86400), maintenance_type |-> "tire_repair", cost |-> Num(20),
     description |-> "tire repair for bike B1"]

MaintenanceVariants(b) ==
    { b,
      [b EXCEPT !.bike_id = NA],
      [b EXCEPT !.date = BadTime],
      [b EXCEPT !.date = NaT],
      [b EXCEPT !.maintenance_type = NA],
      [b EXCEPT !.maintenance_type = "oil_change"],
      [b EXCEPT !.maintenance_type = "brake_adjustment"],
      [b EXCEPT !.maintenance_type = "battery_replacement", !.bike_type = "electric"],
      [b EXCEPT !.maintenance_type = "chain_lubrication"],
      [b EXCEPT !.maintenance_type = "general_inspection", !.cost = NumStr(35)],
      [b EXCEPT !.cost = NaN],
      [b EXCEPT !.cost = BadNum],
      [b EXCEPT !.cost = Num(0)],
      [b EXCEPT !.cost = Frac(-1, 2)],
      [b EXCEPT !.cost = Num(-1), !.maintenance_type = "oil_change"] }

MaintenanceRows ==
    UNION {MaintenanceVariants(BaseMaintenance(id)) : id \in {"M1", "M2"}}
        \cup {BaseMaintenance(NA)}

----------------------------------------------------------------------------
(* The cleaners, each applied to a raw table and then to its own result. *)

Empty(columns) == [columns |-> columns, rows |-> <<>>]

Init ==
    /\ cleaner \in {"trips", "stations", "maintenance"}
    /\ copy_on_write \in (IF cleaner = "trips" THEN BOOLEAN ELSE {FALSE})
    /\ pc = "read"
    /\ trips_df = Empty(TripColumns)
    /\ stations_df = Empty(StationColumns)
    /\ maintenance_df = Empty(MaintenanceColumns)
    /\ trips_clean_df = None
    /\ stations_clean_df = None
    /\ maintenance_clean_df = None
    /\ recleaned = None
    /\ error = NoError
    /\ answer = NoAnswer
    /\ entity = None
    /\ array = <<>>
    /\ param = 0

ReadTripRow ==
    /\ cleaner = "trips" /\ pc = "read"
    /\ Len(trips_df.rows) < MaxTripRows
    /\ \E r \in TripRows : trips_df' = [trips_df EXCEPT !.rows = Append(@, r)]
    /\ UNCHANGED <<entity, copy_on_write, cleaner, pc, stations_df, maintenance_df,
                   trips_clean_df, stations_clean_df, maintenance_clean_df, recleaned>>
    /\ UNCHANGED <<error, answer, array, param>>

ReadStationRow ==
    /\ cleaner = "stations" /\ pc = "read"
    /\ Len(stations_df.rows) < MaxStationRows
    /\ \E r \in StationRows : stations_df' = [stations_df EXCEPT !.rows = Append(@, r)]
    /\ UNCHANGED <<entity, copy_on_write, cleaner, pc, trips_df, maintenance_df,
                   trips_clean_df, stations_clean_df, maintenance_clean_df, recleaned>>
    /\ UNCHANGED <<error, answer, array, param>>

ReadMaintenanceRow ==
    /\ cleaner = "maintenance" /\ pc = "read"
    /\ Len(maintenance_df.rows) < MaxMaintenanceRows
    /\ \E r \in MaintenanceRows :
          maintenance_df' = [maintenance_df EXCEPT !.rows = Append(@, r)]
    /\ UNCHANGED <<entity, copy_on_write, cleaner, pc, trips_df, stations_df,
                   trips_clean_df, stations_clean_df, maintenance_clean_df, recleaned>>
    /\ UNCHANGED <<error, answer, array, param>>

CleanTrips ==
    /\ cleaner = "trips" /\ pc = "read"
    /\ trips_clean_df' = clean_trips_csv(trips_df, copy_on_write).value
    /\ pc' = "cleaned"
    /\ UNCHANGED <<entity, copy_on_write, cleaner, trips_df, stations_df, maintenance_df,
                   stations_clean_df, maintenance_clean_df, recleaned>>
    /\ UNCHANGED <<error, answer, array, param>>

CleanStations ==
    /\ cleaner = "stations" /\ pc = "read"
    /\ stations_clean_df' = clean_stations_csv(stations_df).value
    /\ pc' = "cleaned"
    /\ UNCHANGED <<entity, copy_on_write, cleaner, trips_df, stations_df, maintenance_df,
                   trips_clean_df, maintenance_clean_df, recleaned>>
    /\ UNCHANGED <<error, answer, array, param>>

CleanMaintenance ==
    /\ cleaner = "maintenance" /\ pc = "read"
    /\ maintenance_clean_df' = clean_maintenance_csv(maintenance_df).value
    /\ pc' = "cleaned"
    /\ UNCHANGED <<entity, copy_on_write, cleaner, trips_df, stations_df, maintenance_df,
                   trips_clean_df, stations_clean_df, recleaned>>
    /\ UNCHANGED <<error, answer, array, param>>

CleanTripsAgain ==
    /\ cleaner = "trips" /\ pc = "cleaned"
    /\ recleaned' = clean_trips_csv(trips_clean_df, copy_on_write).value
    /\ pc' = "recleaned"
    /\ UNCHANGED <<entity, copy_on_write, cleaner, trips_df, stations_df, maintenance_df,
                   trips_clean_df, stations_clean_df, maintenance_clean_df>>
    /\ UNCHANGED <<error, answer, array, param>>

CleanStationsAgain ==
    /\ cleaner = "stations" /\ pc = "cleaned"
    /\ recleaned' = clean_stations_csv(stations_clean_df).value
    /\ pc' = "recleaned"
    /\ UNCHANGED <<entity, copy_on_write, cleaner, trips_df, stations_df, maintenance_df,
                   trips_clean_df, stations_clean_df, maintenance_clean_df>>
    /\ UNCHANGED <<error, answer, array, param>>

CleanMaintenanceAgain ==
    /\ cleaner = "maintenance" /\ pc = "cleaned"
    /\ recleaned' = clean_maintenance_csv(maintenance_clean_df).value
    /\ pc' = "recleaned"
    /\ UNCHANGED <<entity, copy_on_write, cleaner, trips_df, stations_df, maintenance_df,
                   trips_clean_df, stations_clean_df, maintenance_clean_df>>
    /\ UNCHANGED <<error, answer, array, param>>

Next ==
    \/ ReadTripRow \/ ReadStationRow \/ ReadMaintenanceRow
    \/ CleanTrips \/ CleanStations \/ CleanMaintenance
    \/ CleanTripsAgain \/ CleanStationsAgain \/ CleanMaintenanceAgain

Spec == Init /\ [][Next]_vars

----------------------------------------------------------------------------
(* Series and group-by helpers of the analytics queries. *)

\* the distinct present values of a text column, in order of first appearance
RECURSIVE Uniques(_, _, _)
Uniques(s, col, seen) ==
    IF s = <<>> THEN <<>>
    ELSE IF Head(s)[col] = NA \/ Head(s)[col] \in seen
         THEN Uniques(Tail(s), col, seen)
         ELSE <<Head(s)[col]>> \o Uniques(Tail(s), col, seen \cup {Head(s)[col]})

Present(s, col) == {s[i][col] : i \in 1..Len(s)} \ {NA}

\* the rows of one group
Group(s, col, v) == SelectSeq(s, LAMBDA r : r[col] = v)

\* entries [key, count] ordered by count, largest first, equal counts in the
\* order given (a stable descending sort)
RECURSIVE InsertDesc(_, _)
InsertDesc(x, s) ==
    IF s = <<>> THEN <<x>>
    ELSE IF Head(s).count >= x.count THEN <<Head(s)>> \o InsertDesc(x, Tail(s))
         ELSE <<x>> \o s

RECURSIVE SortDesc(_, _)
SortDesc(s, acc) ==
    IF s = <<>> THEN acc ELSE SortDesc(Tail(s), InsertDesc(Head(s), acc))

\* Series.head(n)
FirstN(s, n) == SubSeq(s, 1, IF Len(s) < n THEN Len(s) ELSE n)

\* Series.value_counts(): missing values left out, most frequent first, equal
\* counts in order of first appearance
ValueCounts(s, col) ==
    LET u == Uniques(s, col, {})
    IN  SortDesc([i \in 1..Len(u) |->
                    [key |-> u[i], count |-> Len(Group(s, col, u[i]))]], <<>>)

\* dict(zip(stations["station_id"], stations["station_name"])).get(sid, sid):
\* the name of the last station row with that id, the id itself when there is none
StationName(stations, sid) ==
    LET hits == {i \in 1..Len(stations.rows) : stations.rows[i].station_id = sid}
    IN  IF hits = {} THEN sid
        ELSE stations.rows[CHOOSE i \in hits : \A j \in hits : j <= i].station_name

\* the rows whose start_time is a Timestamp (a group-by leaves NaT keys out)
Timed(s) == SelectSeq(s, LAMBDA r : ~IsNaT(r.start_time))

\* Timestamp.hour, and the day number of Timestamp.date() (days since 1970-01-01)
HourOf(t) == (t \div 3600) % 24
DayOf(t) == t \div 86400

\* the calendar date <<year, month, day>> of a day number
CivilFromDays(z0) ==
    LET z == z0 + 719468
        era == z \div 146097
        doe == z - era * 146097
        yoe == (doe - doe \div 1460 + doe \div 36524 - doe \div 146096) \div 365
        doy == doe - (365 * yoe + yoe \div 4 - yoe \div 100)
        mp == (5 * doy + 2) \div 153
        d == doy - (153 * mp + 2) \div 5 + 1
        m == IF mp < 10 THEN mp + 3 ELSE mp - 9
        y == yoe + era * 400 + (IF m <= 2 THEN 1 ELSE 0)
    IN  <<y, m, d>>

\* Timestamp.day_name(): 1970-01-01 was a Thursday
DayName(day) ==
    <<"Thursday", "Friday", "Saturday", "Sunday", "Monday", "Tuesday",
      "Wednesday">>[(day % 7) + 1]

\* Timestamp.to_period("M")
MonthOf(t) == <<CivilFromDays(DayOf(t))[1], CivilFromDays(DayOf(t))[2]>>

SetMax(S) == CHOOSE x \in S : \A y \in S : y <= x
SetMin(S) == CHOOSE x \in S : \A y \in S : x <= y

\* the order of the text keys of a group-by (Python's string order)
TextOrder == <<"S1", "S2", "S3">>

----------------------------------------------------------------------------
(* numerical.OutlierDetection.iqr_outliers *)

\* the numbers of a sequence of cells, sorted ascending
RECURSIVE InsertAsc(_, _)
InsertAsc(x, s) ==
    IF s = <<>> THEN <<x>>
    ELSE IF Le(Head(s), x) THEN <<Head(s)>> \o InsertAsc(x, Tail(s))
         ELSE <<x>> \o s

RECURSIVE SortAsc(_, _)
SortAsc(s, acc) ==
    IF s = <<>> THEN acc ELSE SortAsc(Tail(s), InsertAsc(Head(s), acc))

\* the same with the lower order statistic taken instead of interpolating
Percentile_Lower(a, p) == a[(p * (Len(a) - 1)) \div 100 + 1]

\* np.percentile(a, p) of a non-empty sorted a: linear interpolation at the
\* rank p / 100 * (n - 1)
Percentile(a, p) ==
    LET k == p * (Len(a) - 1)
        lo == k \div 100 + 1
        rest == k % 100
    IN  IF rest = 0 THEN a[lo]
        ELSE Add(a[lo], Mul(Frac(rest, 100), Sub(a[lo + 1], a[lo])))

\* data[~np.isnan(data)]
DropNaN(data) == SelectSeq(data, LAMBDA x : ~IsNaN(x))

\* np.percentile of an empty array raises IndexError (numpy >= 1.24)
iqr_outliers(data, iqr_multiplier) ==
    IF DropNaN(data) = <<>> THEN Raised("IndexError")
    ELSE LET clean_data == SortAsc(DropNaN(data), <<>>)
             q1 == Percentile(clean_data, 25)
             q3 == Percentile(clean_data, 75)
             iqr == Sub(q3, q1)
             lower_bound == Sub(q1, Mul(iqr_multiplier, iqr))
             upper_bound == Add(q3, Mul(iqr_multiplier, iqr))
         IN  Returned([outliers |-> [i \in 1..Len(data) |->
                                       Lt(data[i], lower_bound)
                                           \/ Gt(data[i], upper_bound)],
                       q1 |-> q1, q3 |-> q3, iqr |-> iqr,
                       lower_bound |-> lower_bound, upper_bound |-> upper_bound])

----------------------------------------------------------------------------
(* numerical.StatisticalAnalyzer and OutlierDetection.zscore_outliers *)

RECURSIVE SumSeq(_)
SumSeq(a) == IF a = <<>> THEN Num(0) ELSE Add(Head(a), SumSeq(Tail(a)))

\* np.mean of an array without NaN: NaN for an empty one
Mean(a) == IF a = <<>> THEN NaN ELSE Div(SumSeq(a), Num(Len(a)))

\* the square of np.std (ddof = 0): the mean of the squared deviations
Variance(a) ==
    IF a = <<>> THEN NaN
    ELSE Mean([i \in 1..Len(a) |-> Mul(Sub(a[i], Mean(a)), Sub(a[i], Mean(a)))])

\* sign * sqrt(n / d), kept exact: the square root of the float x = n/d >= 0
Root(sign, x) ==
    IF IsNaN(x) THEN NaN
    ELSE IF x.n = 0 THEN Num(0)
    ELSE [tag |-> "root", sign |-> sign, n |-> x.n, d |-> x.d]

\* np.std
Std(a) == Root(1, Variance(a))

\* x / std for a float x and std > 0
OverStd(x, variance) ==
    IF x.n = 0 THEN Num(0)
    ELSE Root(IF x.n < 0 THEN -1 ELSE 1, Div(Mul(x, x), variance))

\* np.abs(z) > threshold, for a score z and a threshold >= 0
AbsGt(z, threshold) ==
    /\ z.tag = "root"
    /\ ~IsNaN(threshold)
    /\ Gt(Frac(z.n, z.d), Mul(threshold, threshold))

compute_statistics(data) ==
    LET clean == SortAsc(DropNaN(data), <<>>)
    IN  IF Len(clean) = 0
        THEN Returned([count |-> 0, mean |-> NaN, median |-> NaN, std |-> NaN,
                       min |-> NaN, max |-> NaN, q25 |-> NaN, q75 |-> NaN])
        ELSE Returned([count |-> Len(clean),
                       mean |-> Mean(clean),
                       median |-> Percentile(clean, 50),
                       std |-> Std(clean),
                       min |-> clean[1],
                       max |-> clean[Len(clean)],
                       q25 |-> Percentile(clean, 25),
                       q75 |-> Percentile(clean, 75),
                       q90 |-> Percentile(clean, 90)])

DefaultPercentiles == {10, 25, 50, 75, 90, 95, 99}

\* np.percentile of an empty array raises IndexError
percentile_analysis(data, percentiles) ==
    LET clean == SortAsc(DropNaN(data), <<>>)
    IN  IF percentiles = {} THEN Returned(<<>>)
        ELSE IF clean = <<>> THEN Raised("IndexError")
        ELSE Returned([p \in percentiles |-> Percentile(clean, p)])

\* the same without the test for a zero standard deviation: 0 / 0 is NaN
zscore_outliers_Unguarded(data, threshold) ==
    LET clean_data == DropNaN(data)
        mean == Mean(clean_data)
        variance == Variance(clean_data)
        z_scores == [i \in 1..Len(data) |->
                        IF IsNaN(data[i]) THEN Num(0)
                        ELSE IF IsNaN(variance) \/ variance.n = 0 THEN NaN
                        ELSE OverStd(Sub(data[i], mean), variance)]
    IN  Returned([outliers |-> [i \in 1..Len(data) |-> AbsGt(z_scores[i], threshold)],
                  z_scores |-> z_scores])

\* an empty clean_data has mean and std NaN, std == 0 is then false and no
\* position is assigned a score
zscore_outliers(data, threshold) ==
    LET clean_data == DropNaN(data)
        mean == Mean(clean_data)
        variance == Variance(clean_data)
        z_scores == [i \in 1..Len(data) |->
                        IF IsNaN(data[i]) THEN Num(0)
                        ELSE OverStd(Sub(data[i], mean), variance)]
    IN  IF ~IsNaN(variance) /\ variance.n = 0
        THEN Returned([outliers |-> [i \in 1..Len(data) |-> FALSE],
                       z_scores |-> [i \in 1..Len(data) |-> Num(0)]])
        ELSE Returned([outliers |-> [i \in 1..Len(data) |-> AbsGt(z_scores[i], threshold)],
                       z_scores |-> z_scores])

----------------------------------------------------------------------------
(* BikeShareSystem: the fourteen queries.  Each takes the cleaned tables it    *)
(* reads and gives the outcome of the call.                                   *)

q1_trip_summary(trips) ==
    Returned([total_trips |-> Len(trips.rows),
              total_distance_km |-> Round2(SumOf(trips.rows, "distance_km")),
              average_duration_minutes |->
                  Round2(MeanOf(trips.rows, "duration_minutes"))])

TopStations(counts, stations) ==
    [i \in 1..Len(counts) |->
        [station |-> StationName(stations, counts[i].key), trips |-> counts[i].count]]

\* the same as an inner join: ids missing from the station table are dropped
q2_popular_stations_Joined(trips, stations, top_n) ==
    LET known(c) == \E i \in 1..Len(stations.rows) : stations.rows[i].station_id = c.key
    IN  Returned([top_start_stations |->
                      TopStations(FirstN(SelectSeq(ValueCounts(trips.rows, "start_station_id"),
                                                   known), top_n), stations),
                  top_end_stations |->
                      TopStations(FirstN(SelectSeq(ValueCounts(trips.rows, "end_station_id"),
                                                   known), top_n), stations)])

q2_popular_stations(trips, stations, top_n) ==
    Returned([top_start_stations |->
                  TopStations(FirstN(ValueCounts(trips.rows, "start_station_id"), top_n),
                              stations),
              top_end_stations |->
                  TopStations(FirstN(ValueCounts(trips.rows, "end_station_id"), top_n),
                              stations)])

q3_peak_hours(trips) ==
    LET timed == Timed(trips.rows)
        hours == {HourOf(timed[i].start_time.t) : i \in 1..Len(timed)}
    IN  Returned([h \in hours |->
                    Cardinality({i \in 1..Len(timed) : HourOf(timed[i].start_time.t) = h})])

\* the same with the dates kept in order of first appearance in the table
q4_peak_day_FirstSeen(trips) ==
    LET timed == Timed(trips.rows)
        days == {DayOf(timed[i].start_time.t) : i \in 1..Len(timed)}
        count(d) == Cardinality({i \in 1..Len(timed) : DayOf(timed[i].start_time.t) = d})
        first == SetMin({i \in 1..Len(timed) :
                           \A e \in days : count(e) <= count(DayOf(timed[i].start_time.t))})
        peak == DayOf(timed[first].start_time.t)
    IN  IF days = {} THEN Returned([peak_date |-> <<>>, peak_day |-> "None", trips |-> 0])
        ELSE Returned([peak_date |-> CivilFromDays(peak), peak_day |-> DayName(peak),
                       trips |-> count(peak)])

\* daily_counts is ordered by date and idxmax takes the first maximum
q4_peak_day(trips) ==
    LET timed == Timed(trips.rows)
        days == {DayOf(timed[i].start_time.t) : i \in 1..Len(timed)}
        count(d) == Cardinality({i \in 1..Len(timed) : DayOf(timed[i].start_time.t) = d})
        peak == SetMin({d \in days : \A e \in days : count(e) <= count(d)})
    IN  IF days = {} THEN Returned([peak_date |-> <<>>, peak_day |-> "None", trips |-> 0])
        ELSE Returned([peak_date |-> CivilFromDays(peak), peak_day |-> DayName(peak),
                       trips |-> count(peak)])

q5_avg_distance_by_user_type(trips) ==
    Returned([u \in Present(trips.rows, "user_type") |->
                Round2(MeanOf(Group(trips.rows, "user_type", u), "distance_km"))])

\* the same with the day span taken without the added day
q6_bike_utilization_Span(trips) ==
    LET bikes == Cardinality(Present(trips.rows, "bike_id"))
        timed == Timed(trips.rows)
        starts == {timed[i].start_time.t : i \in 1..Len(timed)}
        date_range == IF starts = {} THEN NaN
                      ELSE Num((SetMax(starts) - SetMin(starts)) \div 86400)
        total_possible_minutes == Mul(Num(bikes * 24 * 60), date_range)
        total_usage_minutes == SumOf(trips.rows, "duration_minutes")
        utilization_rate ==
            IF Gt(total_possible_minutes, Num(0))
            THEN Mul(Div(total_usage_minutes, total_possible_minutes), Num(100))
            ELSE Num(0)
    IN  Returned([utilization_percentage |-> Round2(utilization_rate),
                  bikes_in_fleet |-> bikes,
                  date_range_days |-> date_range])

\* (NaT - NaT).days is NaN, and NaN > 0 is false
q6_bike_utilization(trips) ==
    LET bikes == Cardinality(Present(trips.rows, "bike_id"))
        timed == Timed(trips.rows)
        starts == {timed[i].start_time.t : i \in 1..Len(timed)}
        date_range == IF starts = {} THEN NaN
                      ELSE Num((SetMax(starts) - SetMin(starts)) \div 86400 + 1)
        total_possible_minutes == Mul(Num(bikes * 24 * 60), date_range)
        total_usage_minutes == SumOf(trips.rows, "duration_minutes")
        utilization_rate ==
            IF Gt(total_possible_minutes, Num(0))
            THEN Mul(Div(total_usage_minutes, total_possible_minutes), Num(100))
            ELSE Num(0)
    IN  Returned([utilization_percentage |-> Round2(utilization_rate),
                  bikes_in_fleet |-> bikes,
                  date_range_days |-> date_range])

q7_monthly_trend(trips) ==
    LET timed == Timed(trips.rows)
        months == {MonthOf(timed[i].start_time.t) : i \in 1..Len(timed)}
    IN  Returned([m \in months |->
                    Cardinality({i \in 1..Len(timed) : MonthOf(timed[i].start_time.t) = m})])

q8_top_users(trips, top_n) ==
    LET counts == FirstN(ValueCounts(trips.rows, "user_id"), top_n)
    IN  Returned([i \in 1..Len(counts) |->
                    [user_id |-> counts[i].key, trip_count |-> counts[i].count]])

q9_maintenance_cost_by_type(maint) ==
    Returned([b \in Present(maint.rows, "bike_type") |->
                Round2(SumOf(Group(maint.rows, "bike_type", b), "cost"))])

\* the same with a route and its reverse counted as one route
q10_top_routes_Unordered(trips, stations, top_n) ==
    LET n == Len(TextOrder)
        pairs == [k \in 1..(n * n) |->
                    <<TextOrder[(k - 1) \div n + 1], TextOrder[((k - 1) % n) + 1]>>]
        size(p) == Cardinality({i \in 1..Len(trips.rows) :
                                  {trips.rows[i].start_station_id,
                                   trips.rows[i].end_station_id} = {p[1], p[2]}})
        groups == SelectSeq([k \in 1..(n * n) |->
                               [key |-> pairs[k],
                                count |-> IF (k - 1) \div n <= (k - 1) % n
                                          THEN size(pairs[k]) ELSE 0]],
                            LAMBDA g : g.count > 0)
        route_counts == FirstN(SortDesc(groups, <<>>), top_n)
    IN  Returned([i \in 1..Len(route_counts) |->
                    [start_station |-> StationName(stations, route_counts[i].key[1]),
                     end_station |-> StationName(stations, route_counts[i].key[2]),
                     total_trips |-> route_counts[i].count]])

\* groupby(...).size() is ordered by key; sort_values(ascending=False) keeps
\* that order among equal counts
q10_top_routes(trips, stations, top_n) ==
    LET n == Len(TextOrder)
        pairs == [k \in 1..(n * n) |->
                    <<TextOrder[(k - 1) \div n + 1], TextOrder[((k - 1) % n) + 1]>>]
        size(p) == Cardinality({i \in 1..Len(trips.rows) :
                                  /\ trips.rows[i].start_station_id = p[1]
                                  /\ trips.rows[i].end_station_id = p[2]})
        groups == SelectSeq([k \in 1..(n * n) |-> [key |-> pairs[k], count |-> size(pairs[k])]],
                            LAMBDA g : g.count > 0)
        route_counts == FirstN(SortDesc(groups, <<>>), top_n)
    IN  Returned([i \in 1..Len(route_counts) |->
                    [start_station |-> StationName(stations, route_counts[i].key[1]),
                     end_station |-> StationName(stations, route_counts[i].key[2]),
                     total_trips |-> route_counts[i].count]])

\* the same with only the trips of a known status in the total
q11_trip_completion_rate_KnownOnly(trips) ==
    LET completed == Len(Group(trips.rows, "status", "completed"))
        cancelled == Len(Group(trips.rows, "status", "cancelled"))
        total == completed + cancelled
        completion_rate == IF total > 0 THEN Frac(completed * 100, total) ELSE Num(0)
    IN  Returned([completion_rate_percentage |-> Round2(completion_rate),
                  total_trips |-> total,
                  completed |-> completed,
                  cancelled |-> cancelled])

\* the same with the rate left as a fraction of 1
q11_trip_completion_rate_Fraction(trips) ==
    LET total == Len(trips.rows)
        completed == Len(Group(trips.rows, "status", "completed"))
        cancelled == Len(Group(trips.rows, "status", "cancelled"))
        completion_rate == IF total > 0 THEN Frac(completed, total) ELSE Num(0)
    IN  Returned([completion_rate_percentage |-> Round2(completion_rate),
                  total_trips |-> total,
                  completed |-> completed,
                  cancelled |-> cancelled])

q11_trip_completion_rate(trips) ==
    LET total == Len(trips.rows)
        completed == Len(Group(trips.rows, "status", "completed"))
        cancelled == Len(Group(trips.rows, "status", "cancelled"))
        completion_rate == IF total > 0 THEN Frac(completed * 100, total) ELSE Num(0)
    IN  Returned([completion_rate_percentage |-> Round2(completion_rate),
                  total_trips |-> total,
                  completed |-> completed,
                  cancelled |-> cancelled])

\* groupby("user_type").apply(...) of a table with no group: pandas 1.5 calls the
\* function once on the empty table (0 / 0), later versions return an empty frame
\* whose columns (with or without the grouping column) .items() then walks
q12_avg_trips_per_user(trips) ==
    LET types == Present(trips.rows, "user_type")
        users(s) == Cardinality(Present(s, "user_id"))
        total_users == users(trips.rows)
        total_trips == Len(trips.rows)
        avg_overall == IF total_users > 0 THEN Frac(total_trips, total_users) ELSE Num(0)
    IN  IF types = {}
        THEN {Raised("ZeroDivisionError")} \cup
             {Returned([overall_average |-> Round2(avg_overall),
                        by_user_type |-> [c \in cols |-> <<>>]]) :
                 cols \in {trips.columns, trips.columns \ {"user_type"}}}
        ELSE IF \E u \in types : users(Group(trips.rows, "user_type", u)) = 0
        THEN {Raised("ZeroDivisionError")}
        ELSE {Returned([overall_average |-> Round2(avg_overall),
                        by_user_type |->
                            [u \in types |->
                                Round2(Frac(Len(Group(trips.rows, "user_type", u)),
                                            users(Group(trips.rows, "user_type", u))))]])}

q13_bike_maintenance_frequency(maint, top_n) ==
    LET counts == FirstN(ValueCounts(maint.rows, "bike_id"), top_n)
    IN  Returned([i \in 1..Len(counts) |->
                    [bike_id |-> counts[i].key, maintenance_records |-> counts[i].count]])

q14_outlier_trips(trips) ==
    LET durations == [i \in 1..Len(trips.rows) |-> trips.rows[i].duration_minutes]
        distances == [i \in 1..Len(trips.rows) |-> trips.rows[i].distance_km]
        outlier_duration == iqr_outliers(durations, Frac(3, 2))
        outlier_distance == iqr_outliers(distances, Frac(3, 2))
        flagged == {i \in 1..Len(trips.rows) :
                      outlier_duration.value.outliers[i]
                          \/ outlier_distance.value.outliers[i]}
        outliers == SelectSeq([i \in 1..Len(trips.rows) |-> [i |-> i, r |-> trips.rows[i]]],
                              LAMBDA x : x.i \in flagged)
        outlier_list == [k \in 1..Len(outliers) |->
                            [trip_id |-> outliers[k].r.trip_id,
                             duration_minutes |-> outliers[k].r.duration_minutes,
                             distance_km |-> outliers[k].r.distance_km]]
    IN  IF outlier_duration.raised # "" THEN Raised(outlier_duration.raised)
        ELSE IF outlier_distance.raised # "" THEN Raised(outlier_distance.raised)
        ELSE Returned([total_outliers |-> Len(outlier_list),
                       outliers |-> FirstN(outlier_list, 20)])

\* get_all_analytics: the dict of the fourteen results, built in this order, or
\* the exception of the first query that raises (q12 has several possible
\* outcomes on a table without groups)
QueryOrder ==
    <<"Q1_summary", "Q2_popular_stations", "Q3_peak_hours", "Q4_peak_day",
      "Q5_avg_distance", "Q6_utilization", "Q7_monthly_trend", "Q8_top_users",
      "Q9_maintenance_cost", "Q10_top_routes", "Q11_completion_rate",
      "Q12_avg_trips", "Q13_maintenance_freq", "Q14_outliers">>

get_all_analytics(trips, stations, maint) ==
    {LET results ==
             <<q1_trip_summary(trips),
               q2_popular_stations(trips, stations, 10),
               q3_peak_hours(trips),
               q4_peak_day(trips),
               q5_avg_distance_by_user_type(trips),
               q6_bike_utilization(trips),
               q7_monthly_trend(trips),
               q8_top_users(trips, 15),
               q9_maintenance_cost_by_type(maint),
               q10_top_routes(trips, stations, 10),
               q11_trip_completion_rate(trips),
               o12,
               q13_bike_maintenance_frequency(maint, 10),
               q14_outlier_trips(trips)>>
         failing == {k \in 1..Len(QueryOrder) : results[k].raised # ""}
     IN  IF failing = {}
         THEN Returned([k \in 1..Len(QueryOrder) |-> results[k].value])
         ELSE Raised(results[SetMin(failing)].raised)
     : o12 \in q12_avg_trips_per_user(trips)}

----------------------------------------------------------------------------
(* BikeShareSystem: load_data, clean_data and the queries on its result. *)

MaxLoadedTrips == 2
MaxLoadedStations == 1
MaxLoadedMaintenance == 1

\* a row as read from a file that has only the given columns
Restrict(r, columns) == [c \in columns |-> r[c]]

\* all sequences of at most n rows
RECURSIVE SeqsUpTo(_, _)
SeqsUpTo(S, n) ==
    IF n = 0 THEN {<<>>}
    ELSE SeqsUpTo(S, n - 1) \cup
         {Append(s, r) : s \in {x \in SeqsUpTo(S, n - 1) : Len(x) = n - 1}, r \in S}

Tables(columnSets, rowSet, n) ==
    {[columns |-> c, rows |-> [i \in 1..Len(s) |-> Restrict(s[i], c)]] :
        c \in columnSets, s \in SeqsUpTo(rowSet, n)}

\* the trips.csv files read: complete, without a column no cleaning step reads,
\* without one column the cleaner reads, without two of them
TripFiles ==
    Tables({TripColumns, TripColumns \ {"bike_type"}, TripColumns \ {"status"},
            TripColumns \ {"end_time", "distance_km"}},
           {BaseTrip("T1"),
            [BaseTrip("T2") EXCEPT !.user_id = "U2", !.user_type = "casual",
                                   !.start_station_id = "S2", !.end_station_id = "S1",
                                   !.start_time = Str(90000), !.end_time = Str(93600),
                                   !.duration_minutes = NaN, !.distance_km = NaN],
            [BaseTrip("T3") EXCEPT !.start_time = BadTime]},
           MaxLoadedTrips)

StationFiles ==
    Tables({StationColumns, StationColumns \ {"latitude", "longitude"}},
           {BaseStation("S1"), [BaseStation("S2") EXCEPT !.capacity = BadNum]},
           MaxLoadedStations)

MaintenanceFiles ==
    Tables({MaintenanceColumns, MaintenanceColumns \ {"cost"}},
           {BaseMaintenance("M1"), [BaseMaintenance("M2") EXCEPT !.date = BadTime]},
           MaxLoadedMaintenance)

InitSystem ==
    /\ cleaner = "all"
    /\ copy_on_write \in BOOLEAN
    /\ pc = "init"
    /\ trips_df = None
    /\ stations_df = None
    /\ maintenance_df = None
    /\ trips_clean_df = None
    /\ stations_clean_df = None
    /\ maintenance_clean_df = None
    /\ recleaned = None
    /\ error = NoError
    /\ answer = NoAnswer
    /\ entity = None
    /\ array = <<>>
    /\ param = 0

\* load_data: the three files are read in turn; the first read that raises ends
\* the call, leaving the tables read so far assigned
LoadData ==
    /\ cleaner = "all" /\ pc = "init"
    /\ \E read \in 0..3, t \in TripFiles, s \in StationFiles, m \in MaintenanceFiles :
          /\ read < 1 => t = CHOOSE x \in TripFiles : TRUE
          /\ read < 2 => s = CHOOSE x \in StationFiles : TRUE
          /\ read < 3 => m = CHOOSE x \in MaintenanceFiles : TRUE
          /\ trips_df' = IF read >= 1 THEN t ELSE None
          /\ stations_df' = IF read >= 2 THEN s ELSE None
          /\ maintenance_df' = IF read >= 3 THEN m ELSE None
          /\ pc' = IF read = 3 THEN "loaded" ELSE "load_failed"
    /\ UNCHANGED <<entity, copy_on_write, cleaner, trips_clean_df, stations_clean_df,
                   maintenance_clean_df, recleaned, error, answer, array, param>>

\* a cleaner called on a table that was never read: None has no copy()
OnTable(df, outcome) == IF df = None THEN Raised("AttributeError") ELSE outcome

\* clean_data: the three cleaners in turn; the first exception ends the call and
\* is caught (False is returned), leaving the tables cleaned so far assigned
CleanData ==
    /\ cleaner \in {"all", "queries"} /\ pc \in {"loaded", "load_failed"}
    /\ LET t == OnTable(trips_df, clean_trips_csv(trips_df, copy_on_write))
           s == OnTable(stations_df, clean_stations_csv(stations_df))
           m == OnTable(maintenance_df, clean_maintenance_csv(maintenance_df))
           first == IF t.raised # "" THEN t ELSE IF s.raised # "" THEN s ELSE m
       IN  /\ trips_clean_df' = IF t.raised = "" THEN t.value ELSE trips_clean_df
           /\ stations_clean_df' =
                  IF t.raised = "" /\ s.raised = "" THEN s.value ELSE stations_clean_df
           /\ maintenance_clean_df' =
                  IF first.raised = "" THEN m.value ELSE maintenance_clean_df
           /\ error' = [raised |-> first.raised, table |-> "", columns |-> first.columns]
           /\ pc' = IF first.raised = "" THEN "ready" ELSE "clean_failed"
    /\ UNCHANGED <<entity, copy_on_write, cleaner, trips_df, stations_df, maintenance_df,
                   recleaned, answer, array, param>>

\* a query ends with this outcome and leaves this table in self.trips_clean_df
Leave(query, outcome, trips) ==
    /\ answer' = [query |-> query, outcome |-> outcome]
    /\ param' = 0
    /\ trips_clean_df' = trips
    /\ UNCHANGED <<entity, copy_on_write, cleaner, pc, trips_df, stations_df, maintenance_df,
                   stations_clean_df, maintenance_clean_df, recleaned, error, array>>

\* a query called on the cleaned tables ends with this outcome; the tables are
\* left as they are
Return(query, outcome) == Leave(query, outcome, trips_clean_df)

\* the same with the columns written to the table itself
AfterCopy_InPlace(trips, cols) == [trips EXCEPT !.columns = @ \cup cols]

\* trips_copy = trips.copy(); trips_copy[col] = ...: the new columns go to the
\* copy, and the table the query was given is left as it was
AfterCopy(trips, cols) == trips

Q1 ==
    /\ cleaner \in {"all", "queries"} /\ pc = "ready"
    /\ Return("Q1_summary", q1_trip_summary(trips_clean_df))

Q2 ==
    /\ cleaner \in {"all", "queries"} /\ pc = "ready"
    /\ Return("Q2_popular_stations", q2_popular_stations(trips_clean_df, stations_clean_df, 10))

Q3 ==
    /\ cleaner \in {"all", "queries"} /\ pc = "ready"
    /\ Leave("Q3_peak_hours", q3_peak_hours(trips_clean_df),
             AfterCopy(trips_clean_df, {"hour"}))

Q4 ==
    /\ cleaner \in {"all", "queries"} /\ pc = "ready"
    /\ Leave("Q4_peak_day", q4_peak_day(trips_clean_df),
             AfterCopy(trips_clean_df, {"date", "day_of_week"}))

Q5 ==
    /\ cleaner \in {"all", "queries"} /\ pc = "ready"
    /\ Return("Q5_avg_distance", q5_avg_distance_by_user_type(trips_clean_df))

Q6 ==
    /\ cleaner \in {"all", "queries"} /\ pc = "ready"
    /\ Return("Q6_utilization", q6_bike_utilization(trips_clean_df))

Q7 ==
    /\ cleaner \in {"all", "queries"} /\ pc = "ready"
    /\ Leave("Q7_monthly_trend", q7_monthly_trend(trips_clean_df),
             AfterCopy(trips_clean_df, {"month"}))

Q8 ==
    /\ cleaner \in {"all", "queries"} /\ pc = "ready"
    /\ Return("Q8_top_users", q8_top_users(trips_clean_df, 15))

Q9 ==
    /\ cleaner \in {"all", "queries"} /\ pc = "ready"
    /\ Return("Q9_maintenance_cost", q9_maintenance_cost_by_type(maintenance_clean_df))

Q10 ==
    /\ cleaner \in {"all", "queries"} /\ pc = "ready"
    /\ Return("Q10_top_routes", q10_top_routes(trips_clean_df, stations_clean_df, 10))

Q11 ==
    /\ cleaner \in {"all", "queries"} /\ pc = "ready"
    /\ Return("Q11_completion_rate", q11_trip_completion_rate(trips_clean_df))

Q12 ==
    /\ cleaner \in {"all", "queries"} /\ pc = "ready"
    /\ \E o \in q12_avg_trips_per_user(trips_clean_df) : Return("Q12_avg_trips", o)

Q13 ==
    /\ cleaner \in {"all", "queries"} /\ pc = "ready"
    /\ Return("Q13_maintenance_freq", q13_bike_maintenance_frequency(maintenance_clean_df, 10))

Q14 ==
    /\ cleaner \in {"all", "queries"} /\ pc = "ready"
    /\ Return("Q14_outliers", q14_outlier_trips(trips_clean_df))

GetAllAnalytics ==
    /\ cleaner \in {"all", "queries"} /\ pc = "ready"
    /\ \E o \in get_all_analytics(trips_clean_df, stations_clean_df,
                                  maintenance_clean_df) :
          Leave("all", o,
                AfterCopy(AfterCopy(AfterCopy(trips_clean_df, {"hour"}),
                                    {"date", "day_of_week"}), {"month"}))

NextSystem ==
    \/ LoadData \/ CleanData
    \/ Q1 \/ Q2 \/ Q3 \/ Q4 \/ Q5 \/ Q6 \/ Q7
    \/ Q8 \/ Q9 \/ Q10 \/ Q11 \/ Q12 \/ Q13 \/ Q14
    \/ GetAllAnalytics

SpecSystem == InitSystem /\ [][NextSystem]_vars

----------------------------------------------------------------------------
(* The queries on the cleaned form of longer trip tables. *)

MaxQueryTrips == 3

\* the trips.csv rows of the query runs: five kinds of trip
TripKinds(id) ==
    << BaseTrip(id),
       [BaseTrip(id) EXCEPT !.user_id = "U2", !.user_type = "casual", !.bike_id = "B2",
                            !.start_time = Str(90000), !.end_time = Str(93600),
                            !.duration_minutes = NaN, !.distance_km = NaN,
                            !.status = "cancelled"],
       [BaseTrip(id) EXCEPT !.start_station_id = "S2", !.end_station_id = "S1",
                            !.start_time = Str(93600), !.end_time = Str(94200)],
       [BaseTrip(id) EXCEPT !.user_id = "U2", !.bike_id = "B2",
                            !.end_station_id = "S3",
                            !.start_time = Str(180000), !.end_time = Str(210000),
                            !.duration_minutes = Num(500), !.distance_km = Num(40),
                            !.status = "cancelled"],
       [BaseTrip(id) EXCEPT !.start_station_id = "S3", !.end_station_id = "S3",
                            !.start_time = BadTime] >>

TripId(i) == "T" \o ToString(i)

\* the table whose i-th row is a trip of the kind kinds[i]
TripsOfKinds(kinds) ==
    [columns |-> TripColumns,
     rows |-> [i \in 1..Len(kinds) |-> TripKinds(TripId(i))[kinds[i]]]]

\* a table of 26 trips: 6 short, 6 long, and among the other 14 six with a small
\* and six with a large distance
ManyTrips ==
    [columns |-> TripColumns,
     rows |-> [i \in 1..26 |->
                 [BaseTrip(TripId(i)) EXCEPT
                     !.start_time = Str(3600 * i),
                     !.end_time = Str(3600 * i + 1800),
                     !.duration_minutes =
                         IF i <= 6 THEN Num(1) ELSE IF i >= 21 THEN Num(500) ELSE Num(60),
                     !.distance_km =
                         IF i \in 7..12 THEN Frac(1, 2)
                         ELSE IF i \in 15..20 THEN Num(40) ELSE Num(2)]]]

\* the table whose i-th row is a trip with the status cell statuses[i]
TripsOfStatuses(statuses) ==
    [columns |-> TripColumns,
     rows |-> [i \in 1..Len(statuses) |->
                 [BaseTrip(TripId(i)) EXCEPT !.status = statuses[i]]]]

\* trips.csv files with empty and with unknown status cells
StatusFiles ==
    {TripsOfStatuses(s) :
        s \in {<<NA>>, <<NA, NA>>, <<"completed", NA>>, <<NA, "cancelled">>,
               <<"completed", NA, "cancelled">>, <<"completed", "missing">>,
               <<"missing", NA, "completed">>}}

QueryTripFiles ==
    {TripsOfKinds(k) : k \in SeqsUpTo(1..5, MaxQueryTrips)}
        \cup {TripsOfKinds(<<1, 1, 2, 2>>), TripsOfKinds(<<1, 1, 1, 4>>), ManyTrips}
        \cup StatusFiles

QueryStationFiles ==
    {[columns |-> StationColumns, rows |-> s] :
        s \in {<<>>, <<BaseStation("S1")>>,
               <<[BaseStation("S2") EXCEPT !.station_name = "City Hall"]>>}}

TopNs == {1, 2, 10}

\* the state after load_data has read the three files
InitQueries ==
    /\ cleaner = "queries"
    /\ copy_on_write \in BOOLEAN
    /\ pc = "loaded"
    /\ trips_df \in QueryTripFiles
    /\ stations_df \in QueryStationFiles
    /\ maintenance_df = Empty(MaintenanceColumns)
    /\ trips_clean_df = None
    /\ stations_clean_df = None
    /\ maintenance_clean_df = None
    /\ recleaned = None
    /\ error = NoError
    /\ answer = NoAnswer
    /\ entity = None
    /\ array = <<>>
    /\ param = 0

\* a query called with an explicit top_n
ReturnTopN(query, top_n, outcome) ==
    /\ answer' = [query |-> query, outcome |-> outcome]
    /\ param' = top_n
    /\ UNCHANGED <<entity, copy_on_write, cleaner, pc, trips_df, stations_df, maintenance_df,
                   trips_clean_df, stations_clean_df, maintenance_clean_df,
                   recleaned, error, array>>

Q2TopN ==
    /\ cleaner = "queries" /\ pc = "ready"
    /\ \E top_n \in TopNs :
          ReturnTopN("Q2_popular_stations", top_n,
                     q2_popular_stations(trips_clean_df, stations_clean_df, top_n))

Q10TopN ==
    /\ cleaner = "queries" /\ pc = "ready"
    /\ \E top_n \in TopNs :
          ReturnTopN("Q10_top_routes", top_n,
                     q10_top_routes(trips_clean_df, stations_clean_df, top_n))

NextQueries ==
    \/ CleanData
    \/ Q2TopN \/ Q4 \/ Q6 \/ Q10TopN \/ Q11 \/ Q14

SpecQueries == InitQueries /\ [][NextQueries]_vars

----------------------------------------------------------------------------
(* The numerical routines, each called on an array of floats. *)

MaxArrayLen == 5

Observations == {NaN, Num(1), Num(5), Num(100)}

\* the arrays a run starts from: none yet, and two longer ones
Decade == <<Num(1), Num(2), Num(3), Num(4), Num(5), Num(6), Num(7), Num(8), Num(9), Num(100)>>
Spike == [i \in 1..11 |-> IF i = 11 THEN Num(100) ELSE Num(5)]

Multipliers == {Num(1), Frac(3, 2)}
Thresholds == {Num(1), Num(2), Num(3)}
PercentileLists == {DefaultPercentiles, {25, 75}, {}}

InitNumerical ==
    /\ cleaner = "numerical"
    /\ copy_on_write = FALSE
    /\ pc = "input"
    /\ array \in {<<>>, Decade, Spike}
    /\ param = 0
    /\ trips_df = None
    /\ stations_df = None
    /\ maintenance_df = None
    /\ trips_clean_df = None
    /\ stations_clean_df = None
    /\ maintenance_clean_df = None
    /\ recleaned = None
    /\ error = NoError
    /\ answer = NoAnswer
    /\ entity = None

Observe ==
    /\ cleaner = "numerical" /\ pc = "input"
    /\ Len(array) < MaxArrayLen
    /\ \E x \in Observations : array' = Append(array, x)
    /\ UNCHANGED <<entity, copy_on_write, cleaner, pc, trips_df, stations_df, maintenance_df,
                   trips_clean_df, stations_clean_df, maintenance_clean_df,
                   recleaned, error, answer, param>>

\* a routine called with an argument ends with this outcome
Called(routine, argument, outcome) ==
    /\ cleaner = "numerical" /\ pc = "input"
    /\ answer' = [query |-> routine, outcome |-> outcome]
    /\ param' = argument
    /\ pc' = "called"
    /\ UNCHANGED <<entity, copy_on_write, cleaner, trips_df, stations_df, maintenance_df,
                   trips_clean_df, stations_clean_df, maintenance_clean_df,
                   recleaned, error, array>>

ComputeStatistics ==
    /\ pc = "input"
    /\ Called("compute_statistics", 0, compute_statistics(array))

PercentileAnalysis ==
    /\ pc = "input"
    /\ \E percentiles \in PercentileLists :
          Called("percentile_analysis", percentiles,
                 percentile_analysis(array, percentiles))

ZscoreOutliers ==
    /\ pc = "input"
    /\ \E threshold \in Thresholds :
          Called("zscore_outliers", threshold, zscore_outliers(array, threshold))

IqrOutliers ==
    /\ pc = "input"
    /\ \E iqr_multiplier \in Multipliers :
          Called("iqr_outliers", iqr_multiplier, iqr_outliers(array, iqr_multiplier))

NextNumerical ==
    \/ Observe
    \/ ComputeStatistics \/ PercentileAnalysis \/ ZscoreOutliers \/ IqrOutliers

SpecNumerical == InitNumerical /\ [][NextNumerical]_vars

----------------------------------------------------------------------------
(* algorithms.py: the sorting and searching routines, each called on a list of
   integers. *)

MaxListLen == 4

\* the values the lists hold, and the targets looked for: below, among, between
\* and above them
Items == {1, 3, 5}
Targets == 0..6

\* the index a search returns, and Python's None
Index(i) == [tag |-> "int", n |-> i]
PyNone == [tag |-> "None", n |-> 0]

\* merge_sort.merge: the merge of two sorted lists, the left one first on ties
RECURSIVE merge(_, _)
merge(left, right) ==
    IF left = <<>> THEN right
    ELSE IF right = <<>> THEN left
    ELSE IF Head(left) <= Head(right)
         THEN <<Head(left)>> \o merge(Tail(left), right)
         ELSE <<Head(right)>> \o merge(left, Tail(right))

RECURSIVE merge_sort(_)
merge_sort(data) ==
    IF Len(data) <= 1 THEN data
    ELSE LET mid == Len(data) \div 2
         IN  merge(merge_sort(SubSeq(data, 1, mid)),
                   merge_sort(SubSeq(data, mid + 1, Len(data))))

\* the same with a single pivot kept in the middle
RECURSIVE quick_sort_OnePivot(_)
quick_sort_OnePivot(data) ==
    IF Len(data) <= 1 THEN data
    ELSE LET pivot == data[Len(data) \div 2 + 1]
         IN  quick_sort_OnePivot(SelectSeq(data, LAMBDA x : x < pivot))
                 \o <<pivot>>
                 \o quick_sort_OnePivot(SelectSeq(data, LAMBDA x : x > pivot))

\* the pivot is the middle element data[len(data) // 2]
RECURSIVE quick_sort(_)
quick_sort(data) ==
    IF Len(data) <= 1 THEN data
    ELSE LET pivot == data[Len(data) \div 2 + 1]
             left == SelectSeq(data, LAMBDA x : x < pivot)
             middle == SelectSeq(data, LAMBDA x : x = pivot)
             right == SelectSeq(data, LAMBDA x : x > pivot)
         IN  quick_sort(left) \o middle \o quick_sort(right)

\* the inner loop of bubble_sort from position j up to position last:
\* <<result, swapped>>
RECURSIVE BubblePass(_, _, _, _)
BubblePass(result, j, last, swapped) ==
    IF j > last THEN <<result, swapped>>
    ELSE IF result[j] > result[j + 1]
         THEN BubblePass([result EXCEPT ![j] = result[j + 1], ![j + 1] = result[j]],
                         j + 1, last, TRUE)
         ELSE BubblePass(result, j + 1, last, swapped)

\* the outer loop of bubble_sort from pass i, ended by a pass without a swap
RECURSIVE BubbleLoop(_, _)
BubbleLoop(result, i) ==
    IF i >= Len(result) THEN result
    ELSE LET pass == BubblePass(result, 1, Len(result) - i - 1, FALSE)
         IN  IF pass[2] THEN BubbleLoop(pass[1], i + 1) ELSE pass[1]

bubble_sort(data) == BubbleLoop(data, 0)

\* the index (from 0) of the first item equal to the target, None when there is none
linear_search(data, target) ==
    LET hits == {i \in 1..Len(data) : data[i] = target}
    IN  IF hits = {} THEN PyNone
        ELSE Index((CHOOSE i \in hits : \A j \in hits : i <= j) - 1)

\* the while loop of binary_search, on indices from 0
RECURSIVE BinaryLoop(_, _, _, _)
BinaryLoop(data, target, left, right) ==
    IF left > right THEN PyNone
    ELSE LET mid == (left + right) \div 2
         IN  IF data[mid + 1] = target THEN Index(mid)
             ELSE IF data[mid + 1] < target THEN BinaryLoop(data, target, mid + 1, right)
             ELSE BinaryLoop(data, target, left, mid - 1)

binary_search(data, target) == BinaryLoop(data, target, 0, Len(data) - 1)

RECURSIVE binary_search_recursive(_, _, _, _)
binary_search_recursive(data, target, left, right) ==
    IF left > right THEN PyNone
    ELSE LET mid == (left + right) \div 2
         IN  IF data[mid + 1] = target THEN Index(mid)
             ELSE IF data[mid + 1] < target
                  THEN binary_search_recursive(data, target, mid + 1, right)
                  ELSE binary_search_recursive(data, target, left, mid - 1)

\* sorted(data)
IsAscending(data) == \A i \in 1..(Len(data) - 1) : data[i] <= data[i + 1]

InitAlgorithms ==
    /\ cleaner = "algorithms"
    /\ copy_on_write = FALSE
    /\ pc = "input"
    /\ array = <<>>
    /\ param = 0
    /\ trips_df = None
    /\ stations_df = None
    /\ maintenance_df = None
    /\ trips_clean_df = None
    /\ stations_clean_df = None
    /\ maintenance_clean_df = None
    /\ recleaned = None
    /\ error = NoError
    /\ answer = NoAnswer
    /\ entity = None

\* the caller builds the list, one item at a time
AppendItem ==
    /\ cleaner = "algorithms" /\ pc = "input"
    /\ Len(array) < MaxListLen
    /\ \E x \in Items : array' = Append(array, x)
    /\ UNCHANGED <<entity, copy_on_write, cleaner, pc, trips_df, stations_df, maintenance_df,
                   trips_clean_df, stations_clean_df, maintenance_clean_df,
                   recleaned, error, answer, param>>

\* an algorithm called on the list with a target ends with this result
Ran(algorithm, target, result) ==
    /\ cleaner = "algorithms" /\ pc = "input"
    /\ answer' = [query |-> algorithm, outcome |-> Returned(result)]
    /\ param' = target
    /\ pc' = "called"
    /\ UNCHANGED <<entity, copy_on_write, cleaner, trips_df, stations_df, maintenance_df,
                   trips_clean_df, stations_clean_df, maintenance_clean_df,
                   recleaned, error, array>>

MergeSort == pc = "input" /\ Ran("merge_sort", 0, merge_sort(array))

QuickSort == pc = "input" /\ Ran("quick_sort", 0, quick_sort(array))

BubbleSort == pc = "input" /\ Ran("bubble_sort", 0, bubble_sort(array))

\* SortingBenchmark.compare_algorithms: the three on copies of the same list
CompareAlgorithms ==
    /\ pc = "input"
    /\ Ran("compare_algorithms", 0,
           [merge |-> merge_sort(array), quick |-> quick_sort(array),
            bubble |-> bubble_sort(array)])

LinearSearch ==
    /\ pc = "input" /\ IsAscending(array)
    /\ \E target \in Targets : Ran("linear_search", target, linear_search(array, target))

BinarySearch ==
    /\ pc = "input" /\ IsAscending(array)
    /\ \E target \in Targets : Ran("binary_search", target, binary_search(array, target))

BinarySearchRecursive ==
    /\ pc = "input" /\ IsAscending(array)
    /\ \E target \in Targets :
          Ran("binary_search_recursive", target,
              binary_search_recursive(array, target, 0, Len(array) - 1))

NextAlgorithms ==
    \/ AppendItem
    \/ MergeSort \/ QuickSort \/ BubbleSort \/ CompareAlgorithms
    \/ LinearSearch \/ BinarySearch \/ BinarySearchRecursive

SpecAlgorithms == InitAlgorithms /\ [][NextAlgorithms]_vars

----------------------------------------------------------------------------
(* models.py: the entity constructors and the methods of Station and
   CasualUser.  The arguments a claim does not speak of (ids, names, the bike,
   the date) are valid ones. *)

MaxDayPasses == 3

\* the arguments the constructors and methods are called with
Capacities == {-5, 0, 1, 2}
Latitudes == {-91, -90, 52, 90, 91}
Longitudes == {-181, 13, 180}
BatteryLevels == {-1, 0, 100, 101}
Ranges == {0, 50}
MaintenanceTypes == {"tire_repair", "Repair"}
Costs == {-50, 0, 50}
Distances == {-5, 0, 3}
PassCounts == {-1, 0, 1, 2}
BikeIds == {"BK1", "BK2", "BK3"}

VALID_TYPES ==
    {"tire_repair", "brake_adjustment", "battery_replacement", "chain_lubrication",
     "general_inspection"}

\* Station.__init__
Station(capacity, latitude, longitude) ==
    IF capacity <= 0 THEN Raised("ValueError")
    ELSE IF ~(-90 <= latitude /\ latitude <= 90) THEN Raised("ValueError")
    ELSE IF ~(-180 <= longitude /\ longitude <= 180) THEN Raised("ValueError")
    ELSE Returned([class |-> "Station", capacity |-> capacity, latitude |-> latitude,
                   longitude |-> longitude, current_bikes |-> <<>>])

\* ElectricBike.__init__
ElectricBike(battery_level, max_range_km) ==
    IF ~(0 <= battery_level /\ battery_level <= 100) THEN Raised("ValueError")
    ELSE IF max_range_km <= 0 THEN Raised("ValueError")
    ELSE Returned([class |-> "ElectricBike", battery_level |-> battery_level,
                   max_range_km |-> max_range_km])

\* MaintenanceRecord.__init__
MaintenanceRecord(maintenance_type, cost) ==
    IF maintenance_type \notin VALID_TYPES THEN Raised("ValueError")
    ELSE IF cost < 0 THEN Raised("ValueError")
    ELSE Returned([class |-> "MaintenanceRecord", maintenance_type |-> maintenance_type,
                   cost |-> cost])

\* Trip.__init__
Trip(distance_km) ==
    IF distance_km <= 0 THEN Raised("ValueError")
    ELSE Returned([class |-> "Trip", distance_km |-> distance_km])

\* CasualUser.__init__
CasualUser(day_pass_count) ==
    IF day_pass_count < 0 THEN Raised("ValueError")
    ELSE Returned([class |-> "CasualUser", day_pass_count |-> day_pass_count])

\* Station.available_spots
available_spots(station) ==
    IF station.capacity - Len(station.current_bikes) > 0
    THEN station.capacity - Len(station.current_bikes) ELSE 0

Holds(station, bike_id) ==
    \E i \in 1..Len(station.current_bikes) : station.current_bikes[i] = bike_id

\* the same without the look for the bike among those held
add_bike_Unchecked(station, bike_id) ==
    IF Len(station.current_bikes) < station.capacity
    THEN [result |-> TRUE,
          self |-> [station EXCEPT !.current_bikes = Append(@, bike_id)]]
    ELSE [result |-> FALSE, self |-> station]

\* Station.add_bike: the value returned and the station afterwards
add_bike(station, bike_id) ==
    IF Len(station.current_bikes) < station.capacity /\ ~Holds(station, bike_id)
    THEN [result |-> TRUE,
          self |-> [station EXCEPT !.current_bikes = Append(@, bike_id)]]
    ELSE [result |-> FALSE, self |-> station]

\* Station.remove_bike; list.remove takes out the first occurrence
remove_bike(station, bike_id) ==
    IF Holds(station, bike_id)
    THEN LET first == CHOOSE i \in 1..Len(station.current_bikes) :
                         /\ station.current_bikes[i] = bike_id
                         /\ \A j \in 1..(i - 1) : station.current_bikes[j] # bike_id
         IN  [result |-> TRUE,
              self |-> [station EXCEPT !.current_bikes =
                            SubSeq(@, 1, first - 1) \o SubSeq(@, first + 1, Len(@))]]
    ELSE [result |-> FALSE, self |-> station]

\* CasualUser.add_day_pass: the outcome and the user afterwards
add_day_pass(user, count) ==
    IF count <= 0 THEN [outcome |-> Raised("ValueError"), self |-> user]
    ELSE [outcome |-> Returned(None),
          self |-> [user EXCEPT !.day_pass_count = @ + count]]

\* the same with the decrement made whatever the count
use_day_pass_Unguarded(user) ==
    [outcome |-> Returned(TRUE), self |-> [user EXCEPT !.day_pass_count = @ - 1]]

\* CasualUser.use_day_pass
use_day_pass(user) ==
    IF user.day_pass_count > 0
    THEN [outcome |-> Returned(TRUE), self |-> [user EXCEPT !.day_pass_count = @ - 1]]
    ELSE [outcome |-> Returned(FALSE), self |-> user]

InitModels ==
    /\ cleaner = "models"
    /\ copy_on_write = FALSE
    /\ pc = "start"
    /\ array = <<>>
    /\ param = 0
    /\ trips_df = None
    /\ stations_df = None
    /\ maintenance_df = None
    /\ trips_clean_df = None
    /\ stations_clean_df = None
    /\ maintenance_clean_df = None
    /\ recleaned = None
    /\ error = NoError
    /\ answer = NoAnswer
    /\ entity = None

\* a constructor called with these arguments: the object is bound when, and only
\* when, __init__ returns
Construct(class, arguments, outcome) ==
    /\ cleaner = "models" /\ pc = "start"
    /\ answer' = [query |-> class, outcome |-> outcome]
    /\ param' = arguments
    /\ entity' = IF outcome.raised = "" THEN outcome.value ELSE entity
    /\ pc' = IF outcome.raised = "" THEN class ELSE "rejected"
    /\ UNCHANGED <<copy_on_write, cleaner, trips_df, stations_df, maintenance_df,
                   trips_clean_df, stations_clean_df, maintenance_clean_df,
                   recleaned, error, array>>

NewStation ==
    /\ pc = "start"
    /\ \E capacity \in Capacities, latitude \in Latitudes, longitude \in Longitudes :
          Construct("Station",
                    [capacity |-> capacity, latitude |-> latitude, longitude |-> longitude],
                    Station(capacity, latitude, longitude))

NewElectricBike ==
    /\ pc = "start"
    /\ \E battery_level \in BatteryLevels, max_range_km \in Ranges :
          Construct("ElectricBike",
                    [battery_level |-> battery_level, max_range_km |-> max_range_km],
                    ElectricBike(battery_level, max_range_km))

NewMaintenanceRecord ==
    /\ pc = "start"
    /\ \E maintenance_type \in MaintenanceTypes, cost \in Costs :
          Construct("MaintenanceRecord",
                    [maintenance_type |-> maintenance_type, cost |-> cost],
                    MaintenanceRecord(maintenance_type, cost))

NewTrip ==
    /\ pc = "start"
    /\ \E distance_km \in Distances :
          Construct("Trip", [distance_km |-> distance_km], Trip(distance_km))

NewCasualUser ==
    /\ pc = "start"
    /\ \E day_pass_count \in PassCounts :
          Construct("CasualUser", [day_pass_count |-> day_pass_count],
                    CasualUser(day_pass_count))

\* a method of the object called with this argument
Method(name, argument, outcome, self) ==
    /\ cleaner = "models"
    /\ answer' = [query |-> name, outcome |-> outcome]
    /\ param' = argument
    /\ entity' = self
    /\ UNCHANGED <<copy_on_write, cleaner, pc, trips_df, stations_df, maintenance_df,
                   trips_clean_df, stations_clean_df, maintenance_clean_df,
                   recleaned, error, array>>

AddBike ==
    /\ pc = "Station"
    /\ \E bike_id \in BikeIds :
          Method("add_bike", bike_id, Returned(add_bike(entity, bike_id).result),
                 add_bike(entity, bike_id).self)

RemoveBike ==
    /\ pc = "Station"
    /\ \E bike_id \in BikeIds :
          Method("remove_bike", bike_id, Returned(remove_bike(entity, bike_id).result),
                 remove_bike(entity, bike_id).self)

AddDayPass ==
    /\ pc = "CasualUser"
    /\ \E count \in PassCounts :
          /\ entity.day_pass_count + count <= MaxDayPasses
          /\ Method("add_day_pass", count, add_day_pass(entity, count).outcome,
                    add_day_pass(entity, count).self)

UseDayPass ==
    /\ pc = "CasualUser"
    /\ Method("use_day_pass", 0, use_day_pass(entity).outcome, use_day_pass(entity).self)

NextModels ==
    \/ NewStation \/ NewElectricBike \/ NewMaintenanceRecord \/ NewTrip \/ NewCasualUser
    \/ AddBike \/ RemoveBike \/ AddDayPass \/ UseDayPass

SpecModels == InitModels /\ [][NextModels]_vars

----------------------------------------------------------------------------
(* Properties of the cleaners. *)

Cleaned == pc \in {"cleaned", "recleaned"}

Rows(df) == {df.rows[i] : i \in 1..Len(df.rows)}

Distinct(df, key) ==
    \A i, j \in 1..Len(df.rows) : df.rows[i][key] = df.rows[j][key] => i = j

\* C1: every cleaned trip has end_time strictly later than start_time and
\* duration_minutes >= 1, whatever the raw table was.
C1_CleanedTripsEndAfterStart ==
    (cleaner = "trips" /\ Cleaned) =>
        \A r \in Rows(trips_clean_df) :
            /\ ~IsNaT(r.start_time) /\ ~IsNaT(r.end_time)
            /\ r.end_time.t > r.start_time.t
            /\ Ge(r.duration_minutes, Num(1))

\* C2: cleaning is idempotent for each of the three cleaners: the cleaner applied
\* to its own result returns that result, row for row and value for value.
C2_CleaningIdempotent ==
    pc = "recleaned" =>
        /\ cleaner = "trips" => recleaned = trips_clean_df
        /\ cleaner = "stations" => recleaned = stations_clean_df
        /\ cleaner = "maintenance" => recleaned = maintenance_clean_df

\* a second pass over a table the first pass both shortened and repaired
C2_Witness ==
    /\ pc = "recleaned" /\ cleaner = "trips"
    /\ Len(trips_df.rows) = 2 /\ Len(recleaned.rows) = 1
    /\ IsNaN(ToNumeric(trips_df.rows[1].duration_minutes))
    /\ recleaned.rows[1].trip_id = trips_df.rows[1].trip_id

\* C3: every cleaned station has latitude in [-90, 90], longitude in [-180, 180],
\* capacity > 0, no missing station_id, station_name, capacity, latitude or
\* longitude, and no two cleaned stations share a station_id.
C3_CleanedStationsValid ==
    (cleaner = "stations" /\ Cleaned) =>
        /\ \A r \in Rows(stations_clean_df) :
              /\ r.station_id # NA /\ r.station_name # NA
              /\ r.capacity.tag = "num" /\ r.latitude.tag = "num"
              /\ r.longitude.tag = "num"
              /\ -90 * r.latitude.d <= r.latitude.n
              /\ r.latitude.n <= 90 * r.latitude.d
              /\ -180 * r.longitude.d <= r.longitude.n
              /\ r.longitude.n <= 180 * r.longitude.d
              /\ r.capacity.n > 0
        /\ Distinct(stations_clean_df, "station_id")

\* a station on the boundary kept, one beyond it removed
C3_Witness ==
    /\ cleaner = "stations" /\ pc = "cleaned"
    /\ Len(stations_df.rows) = 2 /\ Len(stations_clean_df.rows) = 1
    /\ stations_df.rows[1].longitude = Num(181)
    /\ stations_clean_df.rows[1].longitude = Num(180)

\* C4: a raw trip whose start_time or end_time cannot be parsed never appears in
\* the cleaned trips: no cleaned trip carries an unparsed (NaT) timestamp.
C4_UnparsableTimesDropped ==
    (cleaner = "trips" /\ Cleaned) =>
        \A r \in Rows(trips_clean_df) : ~IsNaT(r.start_time) /\ ~IsNaT(r.end_time)

\* the cells of raw row i after coercion
Coerced(i) == CoerceTrip(trips_df.rows[i])

\* raw row i passes the time-order, de-duplication and missing-key filters
Survives(i) ==
    /\ ~(Coerced(i).end_time.tag = "ts" /\ Coerced(i).start_time.tag = "ts"
         /\ Coerced(i).end_time.t < Coerced(i).start_time.t)
    /\ \A j \in 1..(i - 1) :
          Coerced(j).trip_id = Coerced(i).trip_id =>
              (Coerced(j).end_time.tag = "ts" /\ Coerced(j).start_time.tag = "ts"
               /\ Coerced(j).end_time.t < Coerced(j).start_time.t)
    /\ \A k \in TripKeys : Coerced(i)[k] # NA

\* the duration raw row i is due: the one supplied, else the minutes between its
\* timestamps (n / d minutes, or NaN when a timestamp is missing)
DueDuration(i) ==
    IF Coerced(i).duration_minutes.tag = "num" THEN Coerced(i).duration_minutes
    ELSE IF Coerced(i).end_time.tag = "ts" /\ Coerced(i).start_time.tag = "ts"
         THEN Frac(Coerced(i).end_time.t - Coerced(i).start_time.t, 60)
         ELSE NaN

\* C5: a row that passes the time-order, de-duplication and missing-key filters
\* gets, when its duration_minutes is null, (end_time - start_time) in minutes and
\* otherwise keeps the duration supplied; the duration filter keeps it iff that
\* value is >= 1 (it is then in the cleaned table unless its status is rejected).
C5_DurationRecomputed ==
    (cleaner = "trips" /\ Cleaned) =>
        \A i \in 1..Len(trips_df.rows) :
            Survives(i) =>
                LET kept == {r \in Rows(trips_clean_df) :
                                r.trip_id = Coerced(i).trip_id}
                IN  /\ kept # {} <=>
                          /\ DueDuration(i).tag = "num"
                          /\ DueDuration(i).n >= DueDuration(i).d
                          /\ StatusOk(Coerced(i))
                    /\ \A r \in kept : r.duration_minutes = DueDuration(i)

\* a null duration recomputed to 2 minutes and kept, another recomputed to half a
\* minute and dropped
C5_Witness ==
    /\ cleaner = "trips" /\ pc = "cleaned"
    /\ Len(trips_df.rows) = 2 /\ Len(trips_clean_df.rows) = 1
    /\ Survives(1) /\ Survives(2)
    /\ trips_df.rows[1].duration_minutes = NaN
    /\ trips_df.rows[2].duration_minutes = NaN
    /\ DueDuration(1) = Frac(1, 2)
    /\ trips_clean_df.rows[1].duration_minutes = Num(2)

\* C6: every null distance_km is replaced by the mean of the non-null distances
\* of the rows left by the earlier filters, so no cleaned trip has a null
\* distance_km.  Stated for a pandas that is not in Copy-on-Write mode, where the
\* fill does reach the table.
C6_NoNullDistance ==
    (cleaner = "trips" /\ Cleaned /\ ~copy_on_write) =>
        \A r \in Rows(trips_clean_df) : r.distance_km.tag = "num"

\* C7: the cleaned trips have pairwise distinct trip_id values, no missing
\* trip_id, user_id, bike_id, start_station_id or end_station_id, and a status
\* that is completed, cancelled or null.
C7_CleanedTripsKeyed ==
    (cleaner = "trips" /\ Cleaned) =>
        /\ Distinct(trips_clean_df, "trip_id")
        /\ \A r \in Rows(trips_clean_df) :
              /\ r.trip_id # NA /\ r.user_id # NA /\ r.bike_id # NA
              /\ r.start_station_id # NA /\ r.end_station_id # NA
              /\ r.status \in {"completed", "cancelled", NA}

\* two valid raw trips with one trip_id: only the first is kept
C7_Witness ==
    /\ cleaner = "trips" /\ pc = "cleaned"
    /\ Len(trips_df.rows) = 2 /\ Len(trips_clean_df.rows) = 1
    /\ trips_df.rows[1].trip_id = trips_df.rows[2].trip_id
    /\ trips_df.rows[1].status = "cancelled"
    /\ trips_df.rows[2].status = "completed"
    /\ trips_clean_df.rows[1].status = "cancelled"

\* C8: every cleaned maintenance record has a maintenance_type of the closed set,
\* cost >= 0, a parsed date, no missing record_id or bike_id, and the record_id
\* values are pairwise distinct.
C8_CleanedMaintenanceValid ==
    (cleaner = "maintenance" /\ Cleaned) =>
        /\ \A r \in Rows(maintenance_clean_df) :
              /\ r.maintenance_type \in
                    {"tire_repair", "brake_adjustment", "battery_replacement",
                     "chain_lubrication", "general_inspection"}
              /\ r.cost.tag = "num" /\ r.cost.n >= 0
              /\ r.date.tag = "ts"
              /\ r.record_id # NA /\ r.bike_id # NA
        /\ Distinct(maintenance_clean_df, "record_id")

\* a record of an unknown type removed, a free one (cost 0) kept
C8_Witness ==
    /\ cleaner = "maintenance" /\ pc = "cleaned"
    /\ Len(maintenance_df.rows) = 2 /\ Len(maintenance_clean_df.rows) = 1
    /\ maintenance_df.rows[1].maintenance_type = "oil_change"
    /\ maintenance_clean_df.rows[1].cost = Num(0)

----------------------------------------------------------------------------
(* Properties of the system. *)

\* the columns a cleaner reads
Required(lookups) == UNION {lookups[i] : i \in 1..Len(lookups)}

\* clean_data has been called on three tables that load_data read
CleanedAll ==
    /\ cleaner = "all" /\ pc \in {"ready", "clean_failed"}
    /\ trips_df # None /\ stations_df # None /\ maintenance_df # None

\* the first table, in cleaning order, that lacks a column its cleaner reads, and
\* the columns it lacks ("" and {} when no table lacks one)
FirstLacking ==
    IF Required(TripLookups) \ trips_df.columns # {}
    THEN [table |-> "trips", columns |-> Required(TripLookups) \ trips_df.columns]
    ELSE IF Required(StationLookups) \ stations_df.columns # {}
    THEN [table |-> "stations",
          columns |-> Required(StationLookups) \ stations_df.columns]
    ELSE IF Required(MaintenanceLookups) \ maintenance_df.columns # {}
    THEN [table |-> "maintenance",
          columns |-> Required(MaintenanceLookups) \ maintenance_df.columns]
    ELSE [table |-> "", columns |-> {}]

\* C9: a cleaning call fails if and only if a source table lacks a required
\* column, and the failure is a SchemaError naming that table and the columns it
\* lacks; with every required column present cleaning succeeds whatever the rows
\* hold.
C9_FailsOnlyWithSchemaError ==
    CleanedAll =>
        /\ (pc = "clean_failed") <=> (FirstLacking.table # "")
        /\ pc = "clean_failed" =>
               /\ error.raised = "SchemaError"
               /\ error.table = FirstLacking.table
               /\ error.columns = FirstLacking.columns

\* the queries run on cleaned tables that have no rows
EmptyCleaned ==
    /\ cleaner = "all" /\ pc = "ready"
    /\ trips_clean_df.rows = <<>>
    /\ stations_clean_df.rows = <<>>
    /\ maintenance_clean_df.rows = <<>>

\* the result v of a query is its zero / empty result
ZeroResult(query, v) ==
    CASE query = "Q1_summary" ->
             /\ v.total_trips = 0
             /\ v.total_distance_km = Num(0)
             /\ v.average_duration_minutes = Num(0)
      [] query = "Q2_popular_stations" ->
             v.top_start_stations = <<>> /\ v.top_end_stations = <<>>
      [] query \in {"Q3_peak_hours", "Q5_avg_distance", "Q7_monthly_trend",
                    "Q9_maintenance_cost"} ->
             DOMAIN v = {}
      [] query = "Q4_peak_day" -> v.trips = 0
      [] query = "Q6_utilization" ->
             /\ v.utilization_percentage = Num(0)
             /\ v.bikes_in_fleet = 0
             /\ ~IsNaN(v.date_range_days)
      [] query \in {"Q8_top_users", "Q10_top_routes", "Q13_maintenance_freq"} ->
             Len(v) = 0
      [] query = "Q11_completion_rate" ->
             /\ v.completion_rate_percentage = Num(0)
             /\ v.total_trips = 0 /\ v.completed = 0 /\ v.cancelled = 0
      [] query = "Q12_avg_trips" ->
             v.overall_average = Num(0) /\ DOMAIN v.by_user_type = {}
      [] query = "Q14_outliers" -> v.total_outliers = 0 /\ Len(v.outliers) = 0

\* C10: each of the fourteen queries and get_all_analytics, run on empty cleaned
\* tables, returns without raising, and what it returns is the zero / empty
\* result: counts 0, lists and mappings empty, every average, rate or percentage
\* 0 and never NaN.
C10_EmptyTablesGiveZeroResults ==
    (EmptyCleaned /\ answer.query # "") =>
        /\ answer.outcome.raised = ""
        /\ IF answer.query = "all"
           THEN \A k \in 1..Len(QueryOrder) :
                    ZeroResult(QueryOrder[k], answer.outcome.value[k])
           ELSE ZeroResult(answer.query, answer.outcome.value)

----------------------------------------------------------------------------
(* Properties of the numerical routines. *)

\* the routine has been called on the array
NumericalCalled(routine) ==
    cleaner = "numerical" /\ pc = "called" /\ answer.query = routine

\* the non-NaN values of the array, in ascending order
SortedClean == SortAsc(DropNaN(array), <<>>)

\* C11: iqr_outliers returns a mask as long as its input in which position i is
\* True iff the value there is not NaN and lies strictly below Q1 - m * IQR or
\* strictly above Q3 + m * IQR, the quartiles being those of the non-NaN values;
\* every NaN position is False.
C11_IqrMaskMarksValuesOutsideBounds ==
    NumericalCalled("iqr_outliers") =>
        /\ answer.outcome.raised = ""
        /\ LET mask == answer.outcome.value.outliers
               first == Percentile(SortedClean, 25)
               third == Percentile(SortedClean, 75)
               IQR == Sub(third, first)
               lower == Sub(first, Mul(param, IQR))
               upper == Add(third, Mul(param, IQR))
           IN  /\ Len(mask) = Len(array)
               /\ \A i \in 1..Len(array) :
                      mask[i] <=> /\ ~IsNaN(array[i])
                                  /\ Lt(array[i], lower) \/ Gt(array[i], upper)

\* v is the value at rank p / 100 * (n - 1) of the sorted a, interpolated
\* linearly between the two order statistics around that rank
Interpolated(a, p, v) ==
    LET rank100 == p * (Len(a) - 1)
        below == rank100 \div 100 + 1
        weight == rank100 % 100
    IN  IF weight = 0 THEN v = a[below]
        ELSE Mul(Num(100), v) =
                 Add(Mul(Num(100 - weight), a[below]), Mul(Num(weight), a[below + 1]))

\* C12: quartiles and percentiles are interpolated linearly between the order
\* statistics of the sorted non-NaN values at rank p / 100 * (n - 1); for
\* [1, 2, 3, 4, 5, 6, 7, 8, 9, 100] iqr_outliers gives Q1 = 3.25, Q3 = 7.75,
\* IQR = 4.5, the bounds -3.5 and 14.5, and flags 100 alone.
C12_LinearInterpolation ==
    /\ (NumericalCalled("iqr_outliers") /\ answer.outcome.raised = "") =>
           /\ Interpolated(SortedClean, 25, answer.outcome.value.q1)
           /\ Interpolated(SortedClean, 75, answer.outcome.value.q3)
    /\ (NumericalCalled("percentile_analysis") /\ answer.outcome.raised = "") =>
           /\ DOMAIN answer.outcome.value = param
           /\ \A p \in param : Interpolated(SortedClean, p, answer.outcome.value[p])
    /\ (NumericalCalled("iqr_outliers") /\ array = Decade /\ param = Frac(3, 2)) =>
           /\ answer.outcome.raised = ""
           /\ answer.outcome.value.q1 = Frac(13, 4)
           /\ answer.outcome.value.q3 = Frac(31, 4)
           /\ answer.outcome.value.iqr = Frac(9, 2)
           /\ answer.outcome.value.lower_bound = Frac(-7, 2)
           /\ answer.outcome.value.upper_bound = Frac(29, 2)
           /\ answer.outcome.value.outliers = [i \in 1..10 |-> i = 10]

C12_Witness ==
    /\ NumericalCalled("iqr_outliers")
    /\ array = Decade /\ param = Frac(3, 2)
    /\ answer.outcome.value.outliers[10]

\* the fields of the record compute_statistics returns for a non-empty input
StatisticsFields == DOMAIN compute_statistics(<<Num(1)>>).value

\* C13: for an empty input, and for one holding only NaN, compute_statistics
\* returns without raising a record with count = 0 and with every other field of
\* the record of a non-empty input (mean, median, std, min, max and the 25th,
\* 75th and 90th percentile) present and NaN.
C13_EmptyStatisticsAllNaN ==
    (NumericalCalled("compute_statistics") /\ SortedClean = <<>>) =>
        /\ answer.outcome.raised = ""
        /\ DOMAIN answer.outcome.value = StatisticsFields
        /\ answer.outcome.value.count = 0
        /\ \A f \in StatisticsFields \ {"count"} : answer.outcome.value[f] = NaN

\* the non-NaN values of the array are there and all equal: their standard
\* deviation is zero
ZeroDeviation ==
    /\ SortedClean # <<>>
    /\ \A i \in 1..Len(SortedClean) : SortedClean[i] = SortedClean[1]

\* the squared deviation of x from the mean of the non-NaN values
SquaredDeviation(x) ==
    LET m == Div(SumSeq(SortedClean), Num(Len(SortedClean)))
    IN  Mul(Sub(x, m), Sub(x, m))

\* |x - mean| / std > threshold for the population standard deviation, stated
\* on the squares: N * (x - mean)^2 > threshold^2 * (sum of squared deviations)
BeyondThreshold(x, threshold) ==
    Gt(Mul(Num(Len(SortedClean)), SquaredDeviation(x)),
       Mul(Mul(threshold, threshold),
           SumSeq([j \in 1..Len(SortedClean) |-> SquaredDeviation(SortedClean[j])])))

----------------------------------------------------------------------------
(* Properties of the queries. *)

\* the query has been called on the cleaned tables and has returned
Answered(query) ==
    /\ cleaner = "queries" /\ pc = "ready"
    /\ answer.query = query /\ answer.outcome.raised = ""

\* the number of cleaned trips with the status
WithStatus(status) ==
    Cardinality({i \in 1..Len(trips_clean_df.rows) :
                   trips_clean_df.rows[i].status = status})

Statuses == [i \in 1..Len(trips_clean_df.rows) |-> trips_clean_df.rows[i].status]

\* what q11 reports apart from the rate, and its result on the four statuses
CompletionCounts ==
    /\ answer.outcome.value.completed = WithStatus("completed")
    /\ answer.outcome.value.cancelled = WithStatus("cancelled")
    /\ answer.outcome.value.total_trips = Len(trips_clean_df.rows)
    /\ Statuses = <<"completed", "completed", "cancelled", "cancelled">> =>
           /\ answer.outcome.value.completion_rate_percentage = Num(50)
           /\ answer.outcome.value.completed = 2
           /\ answer.outcome.value.cancelled = 2

\* completed / total * 100, 0 for no trip
CompletionRate ==
    IF Len(trips_clean_df.rows) > 0
    THEN Frac(WithStatus("completed") * 100, Len(trips_clean_df.rows))
    ELSE Num(0)

\* C15 as stated: q11 returns the numbers of completed, of cancelled and of all
\* cleaned trips, and the rate completed / total * 100 (0 when total = 0); for
\* [completed, completed, cancelled, cancelled] it returns 50.0, 2 and 2.
C15_CompletionRateExact ==
    Answered("Q11_completion_rate") =>
        /\ CompletionCounts
        /\ answer.outcome.value.completion_rate_percentage = CompletionRate

\* C15 as amended: the same, the rate rounded to two decimals.
C15_CompletionRateRounded ==
    Answered("Q11_completion_rate") =>
        /\ CompletionCounts
        /\ answer.outcome.value.completion_rate_percentage = Round2(CompletionRate)

C15_Witness ==
    /\ Answered("Q11_completion_rate")
    /\ answer.outcome.value.total_trips = 3
    /\ answer.outcome.value.completed = 1
    /\ answer.outcome.value.cancelled = 2

\* C28: for every cleaned trips table q11 satisfies completed + cancelled <=
\* total_trips, with equality iff no cleaned trip has a null status (cleaning keeps
\* the trips of a null status, and q11 counts them in the total only), and
\* 0 <= completion_rate_percentage <= 100.
C28_CompletedPlusCancelledWithinTotal ==
    Answered("Q11_completion_rate") =>
        LET v == answer.outcome.value
        IN  /\ v.total_trips = Len(trips_clean_df.rows)
            /\ v.completed + v.cancelled <= v.total_trips
            /\ v.completed + v.cancelled = v.total_trips <=> WithStatus(NA) = 0
            /\ Le(Num(0), v.completion_rate_percentage)
            /\ Le(v.completion_rate_percentage, Num(100))

C28_Witness ==
    /\ Answered("Q11_completion_rate")
    /\ WithStatus(NA) = 1
    /\ Len(trips_df.rows) = 3
    /\ answer.outcome.value.total_trips = 3
    /\ answer.outcome.value.completed = 1
    /\ answer.outcome.value.cancelled = 1
    /\ Lt(Num(33), answer.outcome.value.completion_rate_percentage)
    /\ Lt(answer.outcome.value.completion_rate_percentage, Num(34))

\* the values of a column of the cleaned trips
Column(col) == [i \in 1..Len(trips_clean_df.rows) |-> trips_clean_df.rows[i][col]]

\* position i of the column is an IQR outlier (multiplier 1.5): its value is not
\* NaN and lies strictly outside the bounds got from the non-NaN values
IqrOutlier(col, i) ==
    LET clean == SortAsc(DropNaN(Column(col)), <<>>)
        first == Percentile(clean, 25)
        third == Percentile(clean, 75)
        reach == Mul(Frac(3, 2), Sub(third, first))
    IN  /\ ~IsNaN(Column(col)[i])
        /\ Lt(Column(col)[i], Sub(first, reach)) \/ Gt(Column(col)[i], Add(third, reach))

\* the positions of the flagged trips, in table order
Flagged ==
    SelectSeq([i \in 1..Len(trips_clean_df.rows) |-> i],
              LAMBDA i : IqrOutlier("duration_minutes", i) \/ IqrOutlier("distance_km", i))

\* C16: q14 flags a trip iff it is an IQR outlier in duration_minutes or in
\* distance_km; total_outliers is the number of flagged trips and the list holds
\* the first min(20, total_outliers) of them in table order, each with its own
\* trip_id, duration and distance.
C16_OutlierTripsListed ==
    (cleaner = "queries" /\ pc = "ready" /\ answer.query = "Q14_outliers") =>
        /\ answer.outcome.raised = ""
        /\ answer.outcome.value.total_outliers = Len(Flagged)
        /\ Len(answer.outcome.value.outliers) =
               (IF Len(Flagged) < 20 THEN Len(Flagged) ELSE 20)
        /\ \A k \in 1..Len(answer.outcome.value.outliers) :
              LET r == trips_clean_df.rows[Flagged[k]]
              IN  answer.outcome.value.outliers[k] =
                      [trip_id |-> r.trip_id,
                       duration_minutes |-> r.duration_minutes,
                       distance_km |-> r.distance_km]

\* the routes of the cleaned trips, one <<start, end>> per trip in table order
Routes ==
    [i \in 1..Len(trips_clean_df.rows) |->
        <<trips_clean_df.rows[i].start_station_id, trips_clean_df.rows[i].end_station_id>>]

RouteSet == {Routes[i] : i \in 1..Len(Routes)}

TripsOnRoute(p) == Cardinality({i \in 1..Len(Routes) : Routes[i] = p})

\* the entry q10 gives for route p
RouteEntry(p) ==
    [start_station |-> StationName(stations_clean_df, p[1]),
     end_station |-> StationName(stations_clean_df, p[2]),
     total_trips |-> TripsOnRoute(p)]

\* C17: q10 counts trips per ordered pair (start, end), returns at most N routes
\* (all of them when there are no more than N) in non-increasing order of count,
\* no route left out has more trips than a route returned, and on trips
\* [(A,B),(A,B),(A,C)] with N = 10 the result is [(A,B): 2, (A,C): 1].
C17_TopRoutesByOrderedPair ==
    Answered("Q10_top_routes") =>
        LET top == answer.outcome.value
            returned == {p \in RouteSet : \E k \in 1..Len(top) : top[k] = RouteEntry(p)}
        IN  /\ Len(top) = (IF Cardinality(RouteSet) < param
                           THEN Cardinality(RouteSet) ELSE param)
            /\ Cardinality(returned) = Len(top)
            /\ \A k \in 1..Len(top) : \E p \in RouteSet : top[k] = RouteEntry(p)
            /\ \A k \in 1..(Len(top) - 1) : top[k].total_trips >= top[k + 1].total_trips
            /\ \A p \in RouteSet \ returned : \A q \in returned :
                  TripsOnRoute(p) <= TripsOnRoute(q)
            /\ (Routes = <<<<"S1", "S2">>, <<"S1", "S2">>, <<"S1", "S3">>>> /\ param = 10) =>
                  top = <<RouteEntry(<<"S1", "S2">>), RouteEntry(<<"S1", "S3">>)>>

\* a route and its reverse are both present and only the busier one is returned
C17_Witness ==
    /\ Answered("Q10_top_routes")
    /\ param = 1
    /\ <<"S1", "S2">> \in RouteSet /\ <<"S2", "S1">> \in RouteSet
    /\ TripsOnRoute(<<"S1", "S2">>) = 2
    /\ answer.outcome.value = <<RouteEntry(<<"S1", "S2">>)>>

\* the station ids found in a column of the cleaned trips, and their trip counts
StationsIn(col) == {Column(col)[i] : i \in 1..Len(trips_clean_df.rows)} \ {NA}

TripsAt(col, sid) == Cardinality({i \in 1..Len(trips_clean_df.rows) : Column(col)[i] = sid})

\* the rows of the cleaned station table with a given id
StationHits(sid) ==
    {i \in 1..Len(stations_clean_df.rows) : stations_clean_df.rows[i].station_id = sid}

\* top is a top-N list of the ids of column col: min(N, ids) entries, one per
\* id with that id's count, in non-increasing order, named by the station table
\* or by the id itself when the table does not have it
TopOf(top, col) ==
    /\ Len(top) = (IF Cardinality(StationsIn(col)) < param
                   THEN Cardinality(StationsIn(col)) ELSE param)
    /\ \A k \in 1..(Len(top) - 1) : top[k].trips >= top[k + 1].trips
    /\ \E ids \in [1..Len(top) -> StationsIn(col)] :
          /\ \A j, k \in 1..Len(top) : ids[j] = ids[k] => j = k
          /\ \A k \in 1..Len(top) :
                /\ top[k].trips = TripsAt(col, ids[k])
                /\ IF StationHits(ids[k]) = {} THEN top[k].station = ids[k]
                   ELSE \E i \in StationHits(ids[k]) :
                           top[k].station = stations_clean_df.rows[i].station_name

\* C18: q2 counts start_station_id and end_station_id independently, returns for
\* each at most N entries in non-increasing order of count, and names each
\* station by the cleaned station table, or by the raw id when the table does
\* not have the id; such a trip is still counted.
C18_PopularStationsFallBackToId ==
    Answered("Q2_popular_stations") =>
        /\ TopOf(answer.outcome.value.top_start_stations, "start_station_id")
        /\ TopOf(answer.outcome.value.top_end_stations, "end_station_id")

\* one id is named by the station table and another is reported as itself, and
\* the two lists differ
C18_Witness ==
    /\ Answered("Q2_popular_stations")
    /\ StationHits("S2") # {} /\ StationHits("S1") = {}
    /\ \E k \in 1..Len(answer.outcome.value.top_start_stations) :
          /\ answer.outcome.value.top_start_stations[k].station = "S1"
          /\ answer.outcome.value.top_start_stations[k].trips = 2
    /\ \E k \in 1..Len(answer.outcome.value.top_end_stations) :
          /\ answer.outcome.value.top_end_stations[k].station \notin {"S1", "S2", "S3"}
    /\ answer.outcome.value.top_start_stations # answer.outcome.value.top_end_stations

\* the day numbers of the cleaned trips that have a start_time, and the number
\* of trips on a day: both depend on the set of trips only, not on their order
TripDays ==
    {DayOf(trips_clean_df.rows[i].start_time.t) :
        i \in {j \in 1..Len(trips_clean_df.rows) : ~IsNaT(trips_clean_df.rows[j].start_time)}}

TripsOn(d) ==
    Cardinality({i \in 1..Len(trips_clean_df.rows) :
                   /\ ~IsNaT(trips_clean_df.rows[i].start_time)
                   /\ DayOf(trips_clean_df.rows[i].start_time.t) = d})

\* C19: when some trip has a date, q4 returns a date whose trip count is the
\* maximum over all dates, that date's weekday name and that count; among the
\* dates that share the maximum it is the earliest, whatever the row order.
C19_PeakDayEarliestOnTies ==
    (Answered("Q4_peak_day") /\ TripDays # {}) =>
        \E d \in TripDays :
            /\ \A e \in TripDays : TripsOn(e) <= TripsOn(d)
            /\ \A e \in TripDays : TripsOn(e) = TripsOn(d) => d <= e
            /\ answer.outcome.value.peak_date = CivilFromDays(d)
            /\ answer.outcome.value.peak_day = DayName(d)
            /\ answer.outcome.value.trips = TripsOn(d)
            /\ d = 0 => /\ answer.outcome.value.peak_date = <<1970, 1, 1>>
                        /\ answer.outcome.value.peak_day = "Thursday"
            /\ d = 1 => /\ answer.outcome.value.peak_date = <<1970, 1, 2>>
                        /\ answer.outcome.value.peak_day = "Friday"

\* two dates share the maximum and the later one comes first in the table
C19_Witness ==
    /\ Answered("Q4_peak_day")
    /\ Len(trips_clean_df.rows) >= 2
    /\ ~IsNaT(trips_clean_df.rows[1].start_time)
    /\ DayOf(trips_clean_df.rows[1].start_time.t) = 1
    /\ TripsOn(0) = TripsOn(1) /\ TripsOn(0) > 0
    /\ \A e \in TripDays : TripsOn(e) <= TripsOn(0)
    /\ answer.outcome.value.peak_date = <<1970, 1, 1>>

\* the distinct bikes of the cleaned trips and the start times present
Fleet == {Column("bike_id")[i] : i \in 1..Len(trips_clean_df.rows)} \ {NA}

StartTimes ==
    {trips_clean_df.rows[i].start_time.t :
        i \in {j \in 1..Len(trips_clean_df.rows) : ~IsNaT(trips_clean_df.rows[j].start_time)}}

\* floor of (latest start_time - earliest start_time) in whole days, plus 1
DateRangeDays == (SetMax(StartTimes) - SetMin(StartTimes)) \div 86400 + 1

\* sum(duration_minutes) / (distinct bikes * 1440 * date_range_days) * 100
Utilization ==
    Div(Mul(SumSeq(DropNaN(Column("duration_minutes"))), Num(100)),
        Num(Cardinality(Fleet) * 1440 * DateRangeDays))

\* C20 as stated: q6 returns sum(duration_minutes) / (distinct bikes * 1440 *
\* date_range_days) * 100 with date_range_days = floor(latest - earliest start
\* in days) + 1, and 0 whenever that denominator is 0.
C20_UtilizationExact ==
    Answered("Q6_utilization") =>
        /\ Fleet = {} => answer.outcome.value.utilization_percentage = Num(0)
        /\ (Fleet # {} /\ StartTimes # {}) =>
              /\ answer.outcome.value.date_range_days = Num(DateRangeDays)
              /\ answer.outcome.value.utilization_percentage = Utilization

\* C20 as amended: the value returned is that rate rounded to two decimals.
C20_UtilizationRounded ==
    Answered("Q6_utilization") =>
        /\ Fleet = {} => answer.outcome.value.utilization_percentage = Num(0)
        /\ (Fleet # {} /\ StartTimes # {}) =>
              /\ answer.outcome.value.date_range_days = Num(DateRangeDays)
              /\ answer.outcome.value.utilization_percentage = Round2(Utilization)

\* two bikes over a range of three days, with a rate that rounding changes
C20_Witness ==
    /\ Answered("Q6_utilization")
    /\ Cardinality(Fleet) = 2
    /\ StartTimes # {} /\ DateRangeDays = 3
    /\ answer.outcome.value.utilization_percentage # Utilization
    /\ Gt(answer.outcome.value.utilization_percentage, Num(0))

----------------------------------------------------------------------------
(* Properties of the averages per user. *)

\* the cleaned trips of one user type, and the distinct users of a list of trips
TripsOfType(u) == SelectSeq(trips_clean_df.rows, LAMBDA r : r.user_type = u)

UsersOf(s) == {s[i].user_id : i \in 1..Len(s)} \ {NA}

UserTypes == {trips_clean_df.rows[i].user_type : i \in 1..Len(trips_clean_df.rows)} \ {NA}

\* trips per distinct user of a list of trips, 0 when it has no user
PerUser(s) ==
    IF UsersOf(s) = {} THEN Num(0) ELSE Frac(Len(s), Cardinality(UsersOf(s)))

\* C21: q12 returns overall = total trips / distinct user_ids (0 when there are
\* no users) and, for each user_type present, the trips of that type / the
\* distinct user_ids with a trip of that type; no division is by zero.
C21_AverageTripsPerUser ==
    (cleaner = "all" /\ pc = "ready" /\ answer.query = "Q12_avg_trips") =>
        /\ answer.outcome.raised = ""
        /\ answer.outcome.value.overall_average = PerUser(trips_clean_df.rows)
        /\ DOMAIN answer.outcome.value.by_user_type = UserTypes
        /\ \A u \in UserTypes :
              /\ UsersOf(TripsOfType(u)) # {}
              /\ answer.outcome.value.by_user_type[u] = PerUser(TripsOfType(u))

----------------------------------------------------------------------------
(* Frame properties of the system. *)

\* C22: every query is read-only: a call of q1..q14 or get_all_analytics leaves
\* the three cleaned tables (rows, columns and values) exactly as they were, so
\* a query's result does not depend on the queries that ran before it; and
\* cleaning leaves the raw tables that load_data read unchanged.
C22_QueriesReadOnly ==
    [][/\ pc = "ready" =>
              UNCHANGED <<trips_clean_df, stations_clean_df, maintenance_clean_df>>
       /\ pc # "init" => UNCHANGED <<trips_df, stations_df, maintenance_df>>]_vars

\* all the queries have run on a cleaned trips table that is shorter than the
\* raw one, and both tables still have the columns of the file
C22_Witness ==
    /\ cleaner = "all" /\ pc = "ready" /\ answer.query = "all"
    /\ Len(trips_clean_df.rows) > 0
    /\ Len(trips_df.rows) > Len(trips_clean_df.rows)
    /\ trips_clean_df.columns = TripColumns /\ trips_df.columns = TripColumns

\* the sum of the counts of a tally (a function from reasons to numbers)
RECURSIVE SumCounts(_, _)
SumCounts(tally, reasons) ==
    IF reasons = {} THEN 0
    ELSE LET r == CHOOSE x \in reasons : TRUE
         IN  tally[r] + SumCounts(tally, reasons \ {r})

\* a cleaned table carries a tally of the rows dropped per reason that accounts
\* for every raw row absent from it
Audited(raw, clean) ==
    /\ "dropped" \in DOMAIN clean
    /\ Len(raw.rows) = Len(clean.rows) + SumCounts(clean.dropped, DOMAIN clean.dropped)

\* C23: cleaning reports audit counts: for each of the three tables the rows
\* absent from the cleaned table are tallied per cleaning rule, so that raw row
\* count = cleaned row count + sum of the per-reason drop counts.
C23_CleaningReportsAuditCounts ==
    (cleaner = "all" /\ pc = "ready") =>
        /\ Audited(trips_df, trips_clean_df)
        /\ Audited(stations_df, stations_clean_df)
        /\ Audited(maintenance_df, maintenance_clean_df)

----------------------------------------------------------------------------
(* Properties of the sorting and searching routines. *)

\* the algorithm has been called on the list
AlgorithmCalled(algorithm) ==
    cleaner = "algorithms" /\ pc = "called" /\ answer.query = algorithm

Occurrences(s, x) == Cardinality({i \in 1..Len(s) : s[i] = x})

\* result is what sorted(data) returns: an ascending permutation of data
SortedFrom(result, data) ==
    /\ Len(result) = Len(data)
    /\ \A i \in 1..(Len(result) - 1) : result[i] <= result[i + 1]
    /\ \A x \in Items : Occurrences(result, x) = Occurrences(data, x)

\* C24: on every list (empty, single, sorted, reversed, with duplicates)
\* merge_sort, quick_sort and bubble_sort each return what sorted() returns, an
\* ascending permutation of the input of the same length, and the three
\* results are identical.
C24_SortsAgreeWithSorted ==
    /\ \A algorithm \in {"merge_sort", "quick_sort", "bubble_sort"} :
          AlgorithmCalled(algorithm) => SortedFrom(answer.outcome.value, array)
    /\ AlgorithmCalled("compare_algorithms") =>
          /\ SortedFrom(answer.outcome.value.merge, array)
          /\ SortedFrom(answer.outcome.value.quick, array)
          /\ SortedFrom(answer.outcome.value.bubble, array)
          /\ answer.outcome.value.merge = answer.outcome.value.quick
          /\ answer.outcome.value.quick = answer.outcome.value.bubble

\* a reversed list with a duplicate, sorted by all three
C24_Witness ==
    /\ AlgorithmCalled("compare_algorithms")
    /\ array = <<5, 3, 3, 1>>
    /\ answer.outcome.value.bubble = <<1, 3, 3, 5>>

\* the indices (from 0) at which the list holds the target
Positions == {i \in 0..(Len(array) - 1) : array[i + 1] = param}

\* C25: on an ascending list binary_search, binary_search_recursive and
\* linear_search return the index of the target when it is present (linear_search
\* the index of its first occurrence) and -1 when it is absent, be it smaller
\* than all, larger than all or between the elements.
C25_SearchReturnsIndexOrMinusOne ==
    \A algorithm \in {"linear_search", "binary_search", "binary_search_recursive"} :
        AlgorithmCalled(algorithm) =>
            IF Positions = {} THEN answer.outcome.value = Index(-1)
            ELSE /\ \E i \in Positions : answer.outcome.value = Index(i)
                 /\ algorithm = "linear_search" =>
                       \A i \in Positions : answer.outcome.value.n <= i

----------------------------------------------------------------------------
(* Properties of the entities. *)

\* the constructor of the class has been called
Constructed(class) == cleaner = "models" /\ answer.query = class

\* the constructor was given a field value the entity does not allow
InvalidField ==
    \/ Constructed("Station") /\ (param.latitude < -90 \/ param.latitude > 90)
    \/ Constructed("Station") /\ param.capacity < 0
    \/ Constructed("ElectricBike") /\ (param.battery_level < 0 \/ param.battery_level > 100)
    \/ Constructed("MaintenanceRecord") /\ param.cost < 0
    \/ Constructed("MaintenanceRecord") /\ param.maintenance_type \notin VALID_TYPES
    \/ Constructed("Trip") /\ param.distance_km < 0

\* C26: a constructor given an invalid field value (a Station latitude outside
\* [-90, 90] or negative capacity, an ElectricBike battery_level outside [0, 100],
\* a MaintenanceRecord with negative cost or unknown maintenance_type, a Trip with
\* negative distance) raises ValidationError and creates no object.
C26_InvalidFieldsRaiseValidationError ==
    InvalidField => answer.outcome.raised = "ValidationError" /\ entity = None

\* the bikes a station holds
Held == {entity.current_bikes[i] : i \in 1..Len(entity.current_bikes)}

\* a step that is a call of the method on the object in hand
Calls(class, name) == cleaner = "models" /\ pc = class /\ answer'.query = name

\* C29: after any sequence of add_bike and remove_bike calls a station holds no
\* bike id twice, holds at most capacity bikes, and available_spots = capacity -
\* number of bikes held; add_bike returns False and changes nothing when the
\* station is full or already holds the bike (and otherwise adds it), remove_bike
\* returns False and changes nothing when the bike is not held (and otherwise
\* takes it out).
C29_StationBikesWithinCapacity ==
    /\ [](pc = "Station" =>
            /\ Cardinality(Held) = Len(entity.current_bikes)
            /\ Len(entity.current_bikes) <= entity.capacity
            /\ available_spots(entity) = entity.capacity - Len(entity.current_bikes))
    /\ [][/\ Calls("Station", "add_bike") =>
                IF Len(entity.current_bikes) >= entity.capacity \/ param' \in Held
                THEN answer'.outcome.value = FALSE /\ entity' = entity
                ELSE /\ answer'.outcome.value = TRUE
                     /\ entity'.current_bikes = Append(entity.current_bikes, param')
          /\ Calls("Station", "remove_bike") =>
                IF param' \notin Held
                THEN answer'.outcome.value = FALSE /\ entity' = entity
                ELSE /\ answer'.outcome.value = TRUE
                     /\ Len(entity'.current_bikes) = Len(entity.current_bikes) - 1
                     /\ \A i \in 1..Len(entity'.current_bikes) :
                           entity'.current_bikes[i] # param']_vars

\* a full station of capacity 2 has just refused a third bike
C29_Witness ==
    /\ cleaner = "models" /\ pc = "Station"
    /\ entity.capacity = 2 /\ Len(entity.current_bikes) = 2
    /\ answer.query = "add_bike" /\ answer.outcome.value = FALSE
    /\ param \notin Held

\* C30: after any sequence of add_day_pass and use_day_pass calls on a casual
\* user, whose count the constructor lets start at 0 or more, day_pass_count is
\* never negative: use_day_pass decrements by exactly 1 and returns True when
\* the count is positive, returns False and leaves the count at 0 otherwise, and
\* add_day_pass with count <= 0 raises and leaves the count unchanged.
C30_DayPassCountNeverNegative ==
    /\ [](pc = "CasualUser" => entity.day_pass_count >= 0)
    /\ [][/\ Calls("CasualUser", "use_day_pass") =>
                IF entity.day_pass_count > 0
                THEN /\ answer'.outcome.value = TRUE
                     /\ entity'.day_pass_count = entity.day_pass_count - 1
                ELSE /\ answer'.outcome.value = FALSE
                     /\ entity' = entity /\ entity.day_pass_count = 0
          /\ Calls("CasualUser", "add_day_pass") =>
                IF param' <= 0
                THEN answer'.outcome.raised # "" /\ entity' = entity
                ELSE /\ answer'.outcome.raised = ""
                     /\ entity'.day_pass_count = entity.day_pass_count + param']_vars

\* a user without passes has just been refused one
C30_Witness ==
    /\ cleaner = "models" /\ pc = "CasualUser"
    /\ entity.day_pass_count = 0
    /\ answer.query = "use_day_pass" /\ answer.outcome.value = FALSE

----------------------------------------------------------------------------
(* The order of de-duplication and the checks in the cleaners. *)

\* the position of the first raw row, among those at the positions given, that
\* has this key value
FirstWith(df, among, key, v) ==
    CHOOSE i \in among : /\ df.rows[i][key] = v
                         /\ \A j \in among : df.rows[j][key] = v => i <= j

RowNumbers(df) == 1..Len(df.rows)

\* every cleaned station is the first raw row of its station_id, and a
\* station_id whose first raw row is invalid has no cleaned row
StationsFromFirstOccurrence ==
    /\ \A r \in Rows(stations_clean_df) :
          r = CoerceStation(stations_df.rows[
                  FirstWith(stations_df, RowNumbers(stations_df), "station_id",
                            r.station_id)])
    /\ \A i \in RowNumbers(stations_df) :
          LET raw == CoerceStation(stations_df.rows[i])
          IN  (/\ i = FirstWith(stations_df, RowNumbers(stations_df), "station_id",
                                raw.station_id)
               /\ \/ raw.station_name = NA \/ IsNaN(raw.capacity)
                  \/ IsNaN(raw.latitude) \/ IsNaN(raw.longitude)
                  \/ Lt(raw.latitude, Num(-90)) \/ Gt(raw.latitude, Num(90))
                  \/ Lt(raw.longitude, Num(-180)) \/ Gt(raw.longitude, Num(180))
                  \/ Le(raw.capacity, Num(0)))
              => \A r \in Rows(stations_clean_df) : r.station_id # raw.station_id

\* every cleaned maintenance record is the first raw row of its record_id
MaintenanceFromFirstOccurrence ==
    \A r \in Rows(maintenance_clean_df) :
        r = CoerceMaintenance(maintenance_df.rows[
                FirstWith(maintenance_df, RowNumbers(maintenance_df), "record_id",
                          r.record_id)])

\* cleaned trip r is raw trip i, repaired or not
FromRawTrip(r, i) ==
    \A col \in TripColumns \ {"duration_minutes", "distance_km"} : r[col] = Coerced(i)[col]

\* the raw trips the time-order filter lets through
InTimeOrder == {i \in RowNumbers(trips_df) : ~invalid_times(Coerced(i))}

\* C27 as stated: in each cleaner de-duplication runs before the null, range and
\* capacity checks, so only the first raw occurrence of a station_id (trip_id,
\* record_id) can survive, and a station_id whose first occurrence is invalid
\* has no cleaned row even when a later duplicate is valid.
C27_OnlyFirstRawOccurrenceSurvives ==
    /\ (cleaner = "stations" /\ Cleaned) => StationsFromFirstOccurrence
    /\ (cleaner = "maintenance" /\ Cleaned) => MaintenanceFromFirstOccurrence
    /\ (cleaner = "trips" /\ Cleaned) =>
          \A r \in Rows(trips_clean_df) :
              FromRawTrip(r, FirstWith(trips_df, RowNumbers(trips_df), "trip_id",
                                       r.trip_id))

\* C27 as amended: for trips the time-order filter runs before de-duplication,
\* so it is the first occurrence among the rows whose end_time is not before
\* start_time that alone can survive.
C27_OnlyFirstOccurrenceSurvives ==
    /\ (cleaner = "stations" /\ Cleaned) => StationsFromFirstOccurrence
    /\ (cleaner = "maintenance" /\ Cleaned) => MaintenanceFromFirstOccurrence
    /\ (cleaner = "trips" /\ Cleaned) =>
          \A r \in Rows(trips_clean_df) :
              FromRawTrip(r, FirstWith(trips_df, InTimeOrder, "trip_id", r.trip_id))

\* two raw stations share an id, the first without capacity and the second
\* valid: none is kept
C27_Witness ==
    /\ cleaner = "stations" /\ pc = "cleaned"
    /\ Len(stations_df.rows) = 2
    /\ stations_df.rows[1].station_id = stations_df.rows[2].station_id
    /\ stations_df.rows[1].capacity = Num(0)
    /\ stations_df.rows[2] = BaseStation("S1")
    /\ stations_clean_df.rows = <<>>

=============================================================================
